---------------------------- MODULE Spec2Model ----------------------------
(***************************************************************************)
(* A model of the AMAF detection core of RealityFirewall                   *)
(* (src/lib/detection): the Confidence Manager, the Scoring Engine, the    *)
(* CUSUM Change Detector and the Pipeline Orchestrator.                    *)
(*                                                                         *)
(* Numbers.  The code computes in IEEE doubles.  The model carries every   *)
(* real quantity as an integer number of thousandths (0.25 is 250), so     *)
(* that the thresholds of the code (0.05, 0.25, 0.3, 0.55, 0.75, 0.8,      *)
(* 0.95, 0.1, 0.5, ...) are exact.  The one non-finite value the code can  *)
(* produce (0/0 in computeSpectralFlatness) is the distinguished value     *)
(* NaN, and the comparison and arithmetic helpers below treat it as        *)
(* JavaScript does.                                                        *)
(***************************************************************************)
EXTENDS Integers, Sequences, FiniteSets, TLC

VARIABLES
    pc,               \* control point of the entry point being executed
    call,             \* arguments of the function-level call under check
    ret,              \* value returned by the function-level call
    route,            \* MediaRouteDecision handed to runPipeline
    featureVector,    \* runPipeline: featureVector
    signals,          \* runPipeline: signals (ordered)
    segments,         \* runPipeline / detectChangePoints: segments
    changePoints,     \* runPipeline / detectChangePoints: changePoints
    currentLevel,     \* runPipeline: currentLevel
    earlyExit,        \* runPipeline: earlyExit
    metrics,          \* runPipeline: the seven detailed-metric locals
    passes,           \* runPipeline: the blocks executed so far, in order
    result,           \* runPipeline: the returned AMAFAnalysisResult
    i,                \* detectChangePoints: loop index
    cusumUpper,       \* detectChangePoints: cusumUpper
    cusumLower,       \* detectChangePoints: cusumLower
    alreadyFlagged    \* detectChangePoints: alreadyFlagged

vars == << pc, call, ret, route, featureVector, signals, segments, changePoints,
           currentLevel, earlyExit, metrics, passes, result,
           i, cusumUpper, cusumLower, alreadyFlagged >>

pipelineVars == << route, featureVector, signals, currentLevel, earlyExit,
                   metrics, passes, result >>

cusumVars == << i, cusumUpper, cusumLower, alreadyFlagged >>

-----------------------------------------------------------------------------
(* JavaScript numbers *)

\* The value of 0/0.  Every comparison with it is false.
NaN == -1000000

\* null / undefined, where a string or a record is expected
Null == "null"

\* null in a slot of type number | null
NullNumber == -2000000

IsNaN(x) == x = NaN

Lt(a, b) == ~IsNaN(a) /\ ~IsNaN(b) /\ a < b
Gt(a, b) == ~IsNaN(a) /\ ~IsNaN(b) /\ a > b
Le(a, b) == ~IsNaN(a) /\ ~IsNaN(b) /\ a <= b
Ge(a, b) == ~IsNaN(a) /\ ~IsNaN(b) /\ a >= b

\* Math.max(0, x): NaN when x is NaN
Max0(x) == IF IsNaN(x) THEN NaN ELSE IF x > 0 THEN x ELSE 0

MaxOf(a, b) == IF a >= b THEN a ELSE b
MinOf(a, b) == IF a <= b THEN a ELSE b

-----------------------------------------------------------------------------
(* types.ts *)

AnalysisLevel == {"level1_lightweight", "level2_deep_spatial",
                  "level3_temporal_crossmodal"}

DetectedMediaType == {"image", "video", "audio", "unknown"}

FeatureKeys == <<"hfer", "svd", "pdi", "tiis", "fav", "etk", "pvss", "frd">>

KeySet == {FeatureKeys[k] : k \in 1..Len(FeatureKeys)}

\* LEVEL_CONFIGS: the static configuration of each level
LEVEL_CONFIGS ==
    [level1_lightweight |->
        [level |-> "level1_lightweight", frameSampleRate |-> 1,
         enableFrequency |-> TRUE, enableTexture |-> FALSE,
         enableTemporalIdentity |-> FALSE, enableOpticalFlow |-> FALSE,
         enableAudioMetrics |-> FALSE, enableChangeDetection |-> FALSE],
     level2_deep_spatial |->
        [level |-> "level2_deep_spatial", frameSampleRate |-> 2,
         enableFrequency |-> TRUE, enableTexture |-> TRUE,
         enableTemporalIdentity |-> TRUE, enableOpticalFlow |-> FALSE,
         enableAudioMetrics |-> TRUE, enableChangeDetection |-> FALSE],
     level3_temporal_crossmodal |->
        [level |-> "level3_temporal_crossmodal", frameSampleRate |-> 5,
         enableFrequency |-> TRUE, enableTexture |-> TRUE,
         enableTemporalIdentity |-> TRUE, enableOpticalFlow |-> TRUE,
         enableAudioMetrics |-> TRUE, enableChangeDetection |-> TRUE]]

-----------------------------------------------------------------------------
(* confidence-manager.ts *)

\* Math.random() < 0.2, the draw in thousandths
RandomEscalate(draw) == draw < 200

\* The outcomes of Math.random() the model distinguishes
Draws == {0, 199, 200, 999}

\* evaluateEscalation with the stability test written > 3
evaluateEscalationStableGt(currentLevel_, fakeProbability, stableFrameCount, draw) ==
    LET randomEscalate == RandomEscalate(draw)
        isAmbiguous == Ge(fakeProbability, 250) /\ Le(fakeProbability, 750)
    IN  IF (Gt(fakeProbability, 950) \/ Lt(fakeProbability, 50))
           /\ stableFrameCount > 3
        THEN [shouldEscalate |-> FALSE, nextLevel |-> Null, earlyExit |-> TRUE,
              reason |-> "early_exit"]
        ELSE IF currentLevel_ = "level1_lightweight" /\ (isAmbiguous \/ randomEscalate)
        THEN [shouldEscalate |-> TRUE, nextLevel |-> "level2_deep_spatial",
              earlyExit |-> FALSE,
              reason |-> IF isAmbiguous THEN "ambiguous" ELSE "randomized"]
        ELSE IF currentLevel_ = "level2_deep_spatial" /\ (isAmbiguous \/ randomEscalate)
        THEN [shouldEscalate |-> TRUE, nextLevel |-> "level3_temporal_crossmodal",
              earlyExit |-> FALSE,
              reason |-> IF isAmbiguous THEN "ambiguous" ELSE "randomized"]
        ELSE [shouldEscalate |-> FALSE, nextLevel |-> Null, earlyExit |-> FALSE,
              reason |-> IF currentLevel_ = "level3_temporal_crossmodal"
                         THEN "max_depth" ELSE "sufficient"]

\* evaluateEscalation with the ambiguous band of its doc comment (0.3-0.7)
evaluateEscalationDocBand(currentLevel_, fakeProbability, stableFrameCount, draw) ==
    LET randomEscalate == RandomEscalate(draw)
        isAmbiguous == Ge(fakeProbability, 300) /\ Le(fakeProbability, 700)
    IN  IF (Gt(fakeProbability, 950) \/ Lt(fakeProbability, 50))
           /\ stableFrameCount >= 3
        THEN [shouldEscalate |-> FALSE, nextLevel |-> Null, earlyExit |-> TRUE,
              reason |-> "early_exit"]
        ELSE IF currentLevel_ = "level1_lightweight" /\ (isAmbiguous \/ randomEscalate)
        THEN [shouldEscalate |-> TRUE, nextLevel |-> "level2_deep_spatial",
              earlyExit |-> FALSE,
              reason |-> IF isAmbiguous THEN "ambiguous" ELSE "randomized"]
        ELSE IF currentLevel_ = "level2_deep_spatial" /\ (isAmbiguous \/ randomEscalate)
        THEN [shouldEscalate |-> TRUE, nextLevel |-> "level3_temporal_crossmodal",
              earlyExit |-> FALSE,
              reason |-> IF isAmbiguous THEN "ambiguous" ELSE "randomized"]
        ELSE [shouldEscalate |-> FALSE, nextLevel |-> Null, earlyExit |-> FALSE,
              reason |-> IF currentLevel_ = "level3_temporal_crossmodal"
                         THEN "max_depth" ELSE "sufficient"]

\* evaluateEscalation without the randomized deeper sampling
evaluateEscalationNoDraw(currentLevel_, fakeProbability, stableFrameCount, draw) ==
    LET randomEscalate == FALSE
        isAmbiguous == Ge(fakeProbability, 250) /\ Le(fakeProbability, 750)
    IN  IF (Gt(fakeProbability, 950) \/ Lt(fakeProbability, 50))
           /\ stableFrameCount >= 3
        THEN [shouldEscalate |-> FALSE, nextLevel |-> Null, earlyExit |-> TRUE,
              reason |-> "early_exit"]
        ELSE IF currentLevel_ = "level1_lightweight" /\ (isAmbiguous \/ randomEscalate)
        THEN [shouldEscalate |-> TRUE, nextLevel |-> "level2_deep_spatial",
              earlyExit |-> FALSE,
              reason |-> IF isAmbiguous THEN "ambiguous" ELSE "randomized"]
        ELSE IF currentLevel_ = "level2_deep_spatial" /\ (isAmbiguous \/ randomEscalate)
        THEN [shouldEscalate |-> TRUE, nextLevel |-> "level3_temporal_crossmodal",
              earlyExit |-> FALSE,
              reason |-> IF isAmbiguous THEN "ambiguous" ELSE "randomized"]
        ELSE [shouldEscalate |-> FALSE, nextLevel |-> Null, earlyExit |-> FALSE,
              reason |-> IF currentLevel_ = "level3_temporal_crossmodal"
                         THEN "max_depth" ELSE "sufficient"]

\* evaluateEscalation with the early exit decided on the probability alone
evaluateEscalationNoStability(currentLevel_, fakeProbability, stableFrameCount, draw) ==
    LET randomEscalate == RandomEscalate(draw)
        isAmbiguous == Ge(fakeProbability, 250) /\ Le(fakeProbability, 750)
    IN  IF Gt(fakeProbability, 950) \/ Lt(fakeProbability, 50)
        THEN [shouldEscalate |-> FALSE, nextLevel |-> Null, earlyExit |-> TRUE,
              reason |-> "early_exit"]
        ELSE IF currentLevel_ = "level1_lightweight" /\ (isAmbiguous \/ randomEscalate)
        THEN [shouldEscalate |-> TRUE, nextLevel |-> "level2_deep_spatial",
              earlyExit |-> FALSE,
              reason |-> IF isAmbiguous THEN "ambiguous" ELSE "randomized"]
        ELSE IF currentLevel_ = "level2_deep_spatial" /\ (isAmbiguous \/ randomEscalate)
        THEN [shouldEscalate |-> TRUE, nextLevel |-> "level3_temporal_crossmodal",
              earlyExit |-> FALSE,
              reason |-> IF isAmbiguous THEN "ambiguous" ELSE "randomized"]
        ELSE [shouldEscalate |-> FALSE, nextLevel |-> Null, earlyExit |-> FALSE,
              reason |-> IF currentLevel_ = "level3_temporal_crossmodal"
                         THEN "max_depth" ELSE "sufficient"]

\* evaluateEscalation(currentLevel, rawScore, fakeProbability, vector,
\* stableFrameCount): rawScore and vector are not read by the body; draw is the
\* value Math.random() returns (it is drawn even when the result ignores it).
evaluateEscalation(currentLevel_, fakeProbability, stableFrameCount, draw) ==
    LET randomEscalate == RandomEscalate(draw)
        isAmbiguous == Ge(fakeProbability, 250) /\ Le(fakeProbability, 750)
    IN  IF (Gt(fakeProbability, 950) \/ Lt(fakeProbability, 50))
           /\ stableFrameCount >= 3
        THEN [shouldEscalate |-> FALSE, nextLevel |-> Null, earlyExit |-> TRUE,
              reason |-> "early_exit"]
        ELSE IF currentLevel_ = "level1_lightweight" /\ (isAmbiguous \/ randomEscalate)
        THEN [shouldEscalate |-> TRUE, nextLevel |-> "level2_deep_spatial",
              earlyExit |-> FALSE,
              reason |-> IF isAmbiguous THEN "ambiguous" ELSE "randomized"]
        ELSE IF currentLevel_ = "level2_deep_spatial" /\ (isAmbiguous \/ randomEscalate)
        THEN [shouldEscalate |-> TRUE, nextLevel |-> "level3_temporal_crossmodal",
              earlyExit |-> FALSE,
              reason |-> IF isAmbiguous THEN "ambiguous" ELSE "randomized"]
        ELSE [shouldEscalate |-> FALSE, nextLevel |-> Null, earlyExit |-> FALSE,
              reason |-> IF currentLevel_ = "level3_temporal_crossmodal"
                         THEN "max_depth" ELSE "sufficient"]

\* determineStartLevel with the size test written <= 500_000
determineStartLevelInclusive(mediaType, fileSize) ==
    IF mediaType = "image" /\ fileSize <= 500000 THEN "level2_deep_spatial"
    ELSE IF mediaType = "video" /\ fileSize > 20000000 THEN "level1_lightweight"
    ELSE IF mediaType = "audio" THEN "level2_deep_spatial"
    ELSE "level1_lightweight"

determineStartLevel(mediaType, fileSize) ==
    IF mediaType = "image" /\ fileSize < 500000 THEN "level2_deep_spatial"
    ELSE IF mediaType = "video" /\ fileSize > 20000000 THEN "level1_lightweight"
    ELSE IF mediaType = "audio" THEN "level2_deep_spatial"
    ELSE "level1_lightweight"

-----------------------------------------------------------------------------
(* scoring-engine.ts *)

\* FEATURE_BASELINES, every number in thousandths
FEATURE_BASELINES ==
    [hfer |-> [mean |-> 250,   std |-> 80,    weight |-> 180, higherIsSuspicious |-> FALSE],
     svd  |-> [mean |-> 150,   std |-> 120,   weight |-> 120, higherIsSuspicious |-> TRUE],
     pdi  |-> [mean |-> 8,     std |-> 5,     weight |-> 140, higherIsSuspicious |-> TRUE],
     tiis |-> [mean |-> 20,    std |-> 15,    weight |-> 160, higherIsSuspicious |-> TRUE],
     fav  |-> [mean |-> 200,   std |-> 150,   weight |-> 100, higherIsSuspicious |-> TRUE],
     etk  |-> [mean |-> 3000,  std |-> 2000,  weight |-> 100, higherIsSuspicious |-> TRUE],
     pvss |-> [mean |-> 50000, std |-> 30000, weight |-> 100, higherIsSuspicious |-> FALSE],
     frd  |-> [mean |-> 150,   std |-> 100,   weight |-> 100, higherIsSuspicious |-> TRUE]]

\* a / b of two finite numbers, truncated toward zero (b > 0)
Quot(a, b) == IF a >= 0 THEN a \div b ELSE -((-a) \div b)

\* a + b of doubles
Plus(a, b) == IF IsNaN(a) \/ IsNaN(b) THEN NaN ELSE a + b

\* normalizeFeature(key, value): the one-sided z-score, in thousandths.
\* Math.max(baseline.std, 1e-6) is baseline.std for every baseline of the table.
normalizeFeature(key, value) ==
    LET baseline == FEATURE_BASELINES[key]
        zScore == IF IsNaN(value) THEN NaN
                  ELSE Quot((value - baseline.mean) * 1000, baseline.std)
    IN  IF baseline.higherIsSuspicious
        THEN Max0(zScore)
        ELSE Max0(IF IsNaN(zScore) THEN NaN ELSE -zScore)

\* The loop of computeEnsembleScore from key number k on:
\* weightedSum in millionths, totalWeight in thousandths.
RECURSIVE EnsembleLoopFalsy(_, _, _, _)
EnsembleLoopFalsy(vector, k, weightedSum, totalWeight) ==
    IF k > Len(FeatureKeys)
    THEN [weightedSum |-> weightedSum, totalWeight |-> totalWeight]
    ELSE LET key == FeatureKeys[k]
             value == vector[key]
         IN  IF value = NullNumber \/ value = 0
             THEN EnsembleLoopFalsy(vector, k + 1, weightedSum, totalWeight)
             ELSE EnsembleLoopFalsy(vector, k + 1,
                      Plus(weightedSum,
                           IF IsNaN(normalizeFeature(key, value)) THEN NaN
                           ELSE normalizeFeature(key, value) * FEATURE_BASELINES[key].weight),
                      totalWeight + FEATURE_BASELINES[key].weight)

RECURSIVE EnsembleLoop(_, _, _, _)
EnsembleLoop(vector, k, weightedSum, totalWeight) ==
    IF k > Len(FeatureKeys)
    THEN [weightedSum |-> weightedSum, totalWeight |-> totalWeight]
    ELSE LET key == FeatureKeys[k]
             value == vector[key]
         IN  IF value = NullNumber
             THEN EnsembleLoop(vector, k + 1, weightedSum, totalWeight)
             ELSE EnsembleLoop(vector, k + 1,
                      Plus(weightedSum,
                           IF IsNaN(normalizeFeature(key, value)) THEN NaN
                           ELSE normalizeFeature(key, value) * FEATURE_BASELINES[key].weight),
                      totalWeight + FEATURE_BASELINES[key].weight)

\* weightedSum and totalWeight when the loop of computeEnsembleScore ends
ensembleSumsFalsy(vector) == EnsembleLoopFalsy(vector, 1, 0, 0)

ensembleSums(vector) == EnsembleLoop(vector, 1, 0, 0)

\* computeEnsembleScore dividing without the totalWeight > 0 test (0 / 0)
computeEnsembleScoreUnguarded(vector) ==
    LET sums == ensembleSums(vector)
    IN  IF sums.totalWeight > 0 /\ ~IsNaN(sums.weightedSum)
        THEN sums.weightedSum \div sums.totalWeight
        ELSE NaN

\* computeEnsembleScore(vector): the raw score in thousandths
computeEnsembleScore(vector) ==
    LET sums == ensembleSums(vector)
    IN  IF sums.totalWeight > 0
        THEN IF IsNaN(sums.weightedSum) THEN NaN
             ELSE sums.weightedSum \div sums.totalWeight
        ELSE 0

\* e^k for an integer k <= 1, in ten-thousandths
ExpInt(k) ==
    CASE k = 1  -> 27183
      [] k = 0  -> 10000
      [] k = -1 -> 3679
      [] k = -2 -> 1353
      [] k = -3 -> 498
      [] k = -4 -> 183
      [] k = -5 -> 67
      [] k = -6 -> 25
      [] k = -7 -> 9
      [] k = -8 -> 3
      [] k = -9 -> 1
      [] OTHER  -> 0

\* e^(f/1000) for 0 <= f < 1000, in ten-thousandths (Taylor series to x^7)
ExpFrac(f) ==
    LET t1 == 10 * f
        t2 == (t1 * f) \div 2000
        t3 == (t2 * f) \div 3000
        t4 == (t3 * f) \div 4000
        t5 == (t4 * f) \div 5000
        t6 == (t5 * f) \div 6000
        t7 == (t6 * f) \div 7000
    IN  10000 + t1 + t2 + t3 + t4 + t5 + t6 + t7

\* Math.exp(u / 1000) for u <= 1000, in ten-thousandths
Exp(u) ==
    LET k == u \div 1000
        f == u % 1000
    IN  (ExpInt(k) * ExpFrac(f)) \div 10000

\* plattScale(rawScore, A = 2.5, B = -1.0) in thousandths
plattScaleAB(rawScore, A, B) ==
    IF IsNaN(rawScore) THEN NaN
    ELSE LET exponent == -((A * rawScore) \div 1000 + B)
         IN  10000000 \div (10000 + Exp(exponent))

plattScale(rawScore) == plattScaleAB(rawScore, 2500, -1000)

RiskOrder == <<"low", "suspicious", "harmful", "high_risk">>

classifyRiskExclusive(probability) ==
    [riskLevel |-> IF Gt(probability, 800) THEN "high_risk"
                   ELSE IF Gt(probability, 550) THEN "harmful"
                   ELSE IF Gt(probability, 300) THEN "suspicious"
                   ELSE "low",
     riskScore |-> IF IsNaN(probability) THEN NaN ELSE (probability + 5) \div 10]

\* classifyRisk(probability): riskScore is Math.round(probability * 100)
classifyRisk(probability) ==
    [riskLevel |-> IF Ge(probability, 800) THEN "high_risk"
                   ELSE IF Ge(probability, 550) THEN "harmful"
                   ELSE IF Ge(probability, 300) THEN "suspicious"
                   ELSE "low",
     riskScore |-> IF IsNaN(probability) THEN NaN ELSE (probability + 5) \div 10]

\* scoreFeatureVector(vector, signals, mediaType) without the explanation text
scoreFeatureVector(vector) ==
    LET rawScore == computeEnsembleScore(vector)
        fakeProbability == plattScale(rawScore)
        risk == classifyRisk(fakeProbability)
    IN  [rawScore |-> rawScore, fakeProbability |-> fakeProbability,
         riskLevel |-> risk.riskLevel, riskScore |-> risk.riskScore]

-----------------------------------------------------------------------------
(* change-detector.ts *)

\* The sum of the authenticity scores of segs[1..k]
RECURSIVE SumScores(_, _)
SumScores(segs, k) ==
    IF k = 0 THEN 0 ELSE SumScores(segs, k - 1) + segs[k].authenticityScore

\* The state of the loop of detectChangePoints before its first iteration
CusumStart == [cusumUpper |-> 0, cusumLower |-> 0, changePoints |-> << >>,
               alreadyFlagged |-> {}]

\* The iteration without the resets of lines 52 and 63
CusumStepNoReset(st, segs, idx, allowance, threshold) ==
    LET n == Len(segs)
        sum == SumScores(segs, n)
        score == segs[idx + 1].authenticityScore
        upper == MaxOf(0, st.cusumUpper + (sum - n * score - n * allowance))
        lower == MaxOf(0, st.cusumLower + (n * score - sum - n * allowance))
        hitUpper == upper > n * threshold /\ idx \notin st.alreadyFlagged
        flagged1 == IF hitUpper THEN st.alreadyFlagged \cup {idx} ELSE st.alreadyFlagged
        cps1 == IF hitUpper
                THEN Append(st.changePoints,
                            [timestamp |-> segs[idx + 1].startTime, segmentIndex |-> idx,
                             cusumValue |-> upper, direction |-> "increase"])
                ELSE st.changePoints
        hitLower == lower > n * threshold /\ idx \notin flagged1
    IN  [cusumUpper |-> upper,
         cusumLower |-> lower,
         changePoints |->
             IF hitLower
             THEN Append(cps1,
                         [timestamp |-> segs[idx + 1].startTime, segmentIndex |-> idx,
                          cusumValue |-> lower, direction |-> "decrease"])
             ELSE cps1,
         alreadyFlagged |-> IF hitLower THEN flagged1 \cup {idx} ELSE flagged1]

\* The iteration with the allowance added instead of subtracted
CusumStepPlusAllowance(st, segs, idx, allowance, threshold) ==
    LET n == Len(segs)
        sum == SumScores(segs, n)
        score == segs[idx + 1].authenticityScore
        upper == MaxOf(0, st.cusumUpper + (sum - n * score + n * allowance))
        lower == MaxOf(0, st.cusumLower + (n * score - sum + n * allowance))
        hitUpper == upper > n * threshold /\ idx \notin st.alreadyFlagged
        flagged1 == IF hitUpper THEN st.alreadyFlagged \cup {idx} ELSE st.alreadyFlagged
        cps1 == IF hitUpper
                THEN Append(st.changePoints,
                            [timestamp |-> segs[idx + 1].startTime, segmentIndex |-> idx,
                             cusumValue |-> upper, direction |-> "increase"])
                ELSE st.changePoints
        hitLower == lower > n * threshold /\ idx \notin flagged1
    IN  [cusumUpper |-> IF hitUpper THEN 0 ELSE upper,
         cusumLower |-> IF hitLower THEN 0 ELSE lower,
         changePoints |->
             IF hitLower
             THEN Append(cps1,
                         [timestamp |-> segs[idx + 1].startTime, segmentIndex |-> idx,
                          cusumValue |-> lower, direction |-> "decrease"])
             ELSE cps1,
         alreadyFlagged |-> IF hitLower THEN flagged1 \cup {idx} ELSE flagged1]

\* One iteration of the loop of detectChangePoints, at 0-based index idx.
\* mean = sum / n is not an integer of thousandths in general: the loop carries
\* cusumUpper, cusumLower and cusumValue multiplied by n = scores.length, and
\* compares them with n * threshold, which is the code's arithmetic over the reals.
CusumStep(st, segs, idx, allowance, threshold) ==
    LET n == Len(segs)
        sum == SumScores(segs, n)
        score == segs[idx + 1].authenticityScore
        upper == MaxOf(0, st.cusumUpper + (sum - n * score - n * allowance))
        lower == MaxOf(0, st.cusumLower + (n * score - sum - n * allowance))
        hitUpper == upper > n * threshold /\ idx \notin st.alreadyFlagged
        flagged1 == IF hitUpper THEN st.alreadyFlagged \cup {idx} ELSE st.alreadyFlagged
        cps1 == IF hitUpper
                THEN Append(st.changePoints,
                            [timestamp |-> segs[idx + 1].startTime, segmentIndex |-> idx,
                             cusumValue |-> upper, direction |-> "increase"])
                ELSE st.changePoints
        hitLower == lower > n * threshold /\ idx \notin flagged1
    IN  [cusumUpper |-> IF hitUpper THEN 0 ELSE upper,
         cusumLower |-> IF hitLower THEN 0 ELSE lower,
         changePoints |->
             IF hitLower
             THEN Append(cps1,
                         [timestamp |-> segs[idx + 1].startTime, segmentIndex |-> idx,
                          cusumValue |-> lower, direction |-> "decrease"])
             ELSE cps1,
         alreadyFlagged |-> IF hitLower THEN flagged1 \cup {idx} ELSE flagged1]

\* The loop of detectChangePoints run from index idx to the end
RECURSIVE CusumLoop(_, _, _, _, _)
CusumLoop(st, segs, idx, allowance, threshold) ==
    IF idx >= Len(segs) THEN st
    ELSE CusumLoop(CusumStep(st, segs, idx, allowance, threshold),
                   segs, idx + 1, allowance, threshold)

\* detectChangePoints(segments, allowance = 0.1, threshold = 0.5)
detectChangePoints(segs, allowance, threshold) ==
    IF Len(segs) < 3 THEN << >>
    ELSE CusumLoop(CusumStart, segs, 0, allowance, threshold).changePoints

\* The inner loop without the test of the change point's direction
EnrichOneAnyDirection(enriched, cp, radiusSegments) ==
    LET start == MaxOf(0, cp.segmentIndex - radiusSegments)
        end == MinOf(Len(enriched) - 1, cp.segmentIndex + radiusSegments)
    IN  [j \in 1..Len(enriched) |->
            IF (j - 1) >= start /\ (j - 1) <= end /\ ~enriched[j].flagged
            THEN [enriched[j] EXCEPT !.flagged = TRUE]
            ELSE enriched[j]]

\* EnrichOne flagging the neighbours of the change point but not its own segment
EnrichOneNeighboursOnly(enriched, cp, radiusSegments) ==
    LET start == MaxOf(0, cp.segmentIndex - radiusSegments)
        end == MinOf(Len(enriched) - 1, cp.segmentIndex + radiusSegments)
    IN  [j \in 1..Len(enriched) |->
            IF (j - 1) >= start /\ (j - 1) <= end /\ (j - 1) # cp.segmentIndex
               /\ ~enriched[j].flagged /\ cp.direction = "increase"
            THEN [enriched[j] EXCEPT !.flagged = TRUE]
            ELSE enriched[j]]

\* The segments after the inner loop of enrichSegmentsWithChangePoints for cp
EnrichOne(enriched, cp, radiusSegments) ==
    LET start == MaxOf(0, cp.segmentIndex - radiusSegments)
        end == MinOf(Len(enriched) - 1, cp.segmentIndex + radiusSegments)
    IN  [j \in 1..Len(enriched) |->
            IF (j - 1) >= start /\ (j - 1) <= end
               /\ ~enriched[j].flagged /\ cp.direction = "increase"
            THEN [enriched[j] EXCEPT !.flagged = TRUE]
            ELSE enriched[j]]

RECURSIVE EnrichLoop(_, _, _, _)
EnrichLoop(enriched, cps, k, radiusSegments) ==
    IF k > Len(cps) THEN enriched
    ELSE EnrichLoop(EnrichOne(enriched, cps[k], radiusSegments), cps, k + 1,
                    radiusSegments)

\* enrichSegmentsWithChangePoints(segments, changePoints, radiusSegments = 1)
enrichSegmentsWithChangePoints(segs, cps, radiusSegments) ==
    EnrichLoop(segs, cps, 1, radiusSegments)

-----------------------------------------------------------------------------
(* Detection signals and absent objects *)

\* undefined / null where an object is expected
Undefined == [undefined |-> TRUE]

\* A DetectionSignalOutput without its texts; metricValue is NullNumber when absent
Signal(id, category, confidence, severity, metricValue) ==
    [id |-> id, category |-> category, confidence |-> confidence,
     severity |-> severity, metricValue |-> metricValue]

\* The value of an expression that raises a TypeError
Throw == [threw |-> TRUE]

Threw(x) == "threw" \in DOMAIN x

-----------------------------------------------------------------------------
(* image-detector.ts *)

\* bytes[k] of a Uint8Array, k 0-based; -1 stands for undefined
ByteAt(bytes, k) == IF k >= 0 /\ k < Len(bytes) THEN bytes[k + 1] ELSE -1

\* bytes.slice(from, to)
Slice(bytes, from, to) == SubSeq(bytes, from + 1, MinOf(to, Len(bytes)))

\* toLowerCase() of one char code
LowerCode(c) == IF c >= 65 /\ c <= 90 THEN c + 32 ELSE c

ToLower(str) == [k \in 1..Len(str) |-> LowerCode(str[k])]

\* str.includes(pat), both sequences of char codes
Includes(str, pat) ==
    \E k \in 0..(Len(str) - Len(pat)) :
        \A j \in 1..Len(pat) : str[k + j] = pat[j]

\* softwareMatches, with the char codes of each name in lower case
SoftwareMatches ==
    << [name |-> "Photoshop", lower |-> <<112, 104, 111, 116, 111, 115, 104, 111, 112>>],
       [name |-> "GIMP",      lower |-> <<103, 105, 109, 112>>],
       [name |-> "Lightroom", lower |-> <<108, 105, 103, 104, 116, 114, 111, 111, 109>>],
       [name |-> "Snapseed",  lower |-> <<115, 110, 97, 112, 115, 101, 101, 100>>],
       [name |-> "FaceApp",   lower |-> <<102, 97, 99, 101, 97, 112, 112>>],
       [name |-> "Remini",    lower |-> <<114, 101, 109, 105, 110, 105>>],
       [name |-> "AI",        lower |-> <<97, 105>>],
       [name |-> "deepfake",  lower |-> <<100, 101, 101, 112, 102, 97, 107, 101>>] >>

\* The for loop over softwareMatches: the last name found in exifStr, or Null
RECURSIVE SoftwareIn(_, _, _)
SoftwareIn(exifStr, k, found) ==
    IF k > Len(SoftwareMatches) THEN found
    ELSE SoftwareIn(exifStr, k + 1,
                    IF Includes(ToLower(exifStr), SoftwareMatches[k].lower)
                    THEN SoftwareMatches[k].name ELSE found)

\* The while loop that scans a JPEG for the APP1 marker, from offset on
RECURSIVE ScanApp1(_, _)
ScanApp1(bytes, offset) ==
    IF ~(offset < Len(bytes) - 4)
    THEN [exifPresent |-> FALSE, softwareUsed |-> Null]
    ELSE IF ByteAt(bytes, offset) = 255
         THEN IF ByteAt(bytes, offset + 1) = 225
              THEN [exifPresent |-> TRUE,
                    softwareUsed |-> SoftwareIn(Slice(bytes, offset, offset + 500), 1, Null)]
              ELSE ScanApp1(bytes, offset + 2
                                   + (ByteAt(bytes, offset + 2) * 256
                                      + ByteAt(bytes, offset + 3)))
         ELSE ScanApp1(bytes, offset + 1)

IsJpeg(bytes) == ByteAt(bytes, 0) = 255 /\ ByteAt(bytes, 1) = 216

IsPng(bytes) == ByteAt(bytes, 0) = 137 /\ ByteAt(bytes, 1) = 80

\* Occurrences of the quantization-table marker FF DB
QuantTableCount(bytes) ==
    IF IsJpeg(bytes)
    THEN Cardinality({k \in 0..(Len(bytes) - 2) :
                         ByteAt(bytes, k) = 255 /\ ByteAt(bytes, k + 1) = 219})
    ELSE 0

\* analyzeImageMetadata(buffer)
analyzeImageMetadata(buffer) ==
    LET bytes == buffer
        jpeg == IF IsJpeg(bytes) THEN ScanApp1(bytes, 2)
                ELSE [exifPresent |-> FALSE, softwareUsed |-> Null]
        pngStr == Slice(bytes, 0, 2000)
        pngText == IsPng(bytes)
                   /\ (Includes(pngStr, <<116, 69, 88, 116>>)
                       \/ Includes(pngStr, <<105, 84, 88, 116>>))
        pngEdited == IsPng(bytes)
                     /\ (Includes(ToLower(pngStr), SoftwareMatches[1].lower)
                         \/ Includes(ToLower(pngStr), SoftwareMatches[2].lower))
        exifPresent == jpeg.exifPresent \/ pngText
        hasBeenEdited == jpeg.softwareUsed # Null \/ pngEdited
        softwareUsed ==
            IF pngEdited
            THEN IF Includes(pngStr, <<80, 104, 111, 116, 111, 115, 104, 111, 112>>)
                 THEN "Adobe Photoshop" ELSE "GIMP"
            ELSE jpeg.softwareUsed
        compressionAnomalies == QuantTableCount(bytes) > 2
    IN  [exifPresent |-> exifPresent,
         hasBeenEdited |-> hasBeenEdited,
         compressionAnomalies |-> compressionAnomalies,
         softwareUsed |-> softwareUsed,
         signals |->
            (IF ~exifPresent
             THEN <<Signal("meta-exif-stripped", "metadata", 650, "suspicious", NullNumber)>>
             ELSE << >>)
            \o (IF hasBeenEdited
                THEN <<Signal("meta-edited", "metadata", 700, "suspicious", NullNumber)>>
                ELSE << >>)
            \o (IF compressionAnomalies
                THEN <<Signal("meta-recompression", "metadata", 550, "low", NullNumber)>>
                ELSE << >>)]

\* A decoded pixel grid (ImageData) is represented by the metrics the extractors
\* compute from it: [hfer, svd, pdi].
\* computeFrequencyMetrics(pixels, width, height)
computeFrequencyMetrics(grid) == [hfer |-> grid.hfer, svd |-> grid.svd]

\* computeTextureMetrics(pixels, width, height)
computeTextureMetrics(grid) == [pdi |-> grid.pdi]

\* analyzeImage(pixels, width, height, buffer, enableTexture); reading
\* imageData.data of an absent imageData raises a TypeError
analyzeImage(imageData, buffer, enableTexture) ==
    IF imageData = Undefined THEN Throw
    ELSE LET frequency == computeFrequencyMetrics(imageData)
             texture == IF enableTexture THEN computeTextureMetrics(imageData)
                        ELSE Undefined
             metadata == analyzeImageMetadata(buffer)
         IN  [frequency |-> frequency,
              texture |-> texture,
              metadata |-> metadata,
              signals |->
                 metadata.signals
                 \o (IF frequency.hfer < 150
                     THEN <<Signal("freq-hfer-low", "visual",
                                   MinOf(950, 600 + (150 - frequency.hfer) * 3),
                                   IF frequency.hfer < 80 THEN "high_risk" ELSE "harmful",
                                   frequency.hfer)>>
                     ELSE << >>)
                 \o (IF frequency.svd > 500
                     THEN <<Signal("freq-svd-high", "visual",
                                   MinOf(900, 500 + (frequency.svd * 3) \div 10),
                                   IF frequency.svd > 1000 THEN "high_risk" ELSE "suspicious",
                                   frequency.svd)>>
                     ELSE << >>)
                 \o (IF texture # Undefined /\ texture.pdi > 20
                     THEN <<Signal("tex-pdi-high", "visual",
                                   MinOf(850, 500 + texture.pdi * 10),
                                   IF texture.pdi > 50 THEN "harmful" ELSE "suspicious",
                                   texture.pdi)>>
                     ELSE << >>)]

\* analyzeImageFromBuffer without its metadata-only fallback
analyzeImageFromBufferNoFallback(buffer, imageData) ==
    analyzeImage(imageData, buffer, TRUE)

\* analyzeImageFromBuffer(buffer, imageData?)
analyzeImageFromBuffer(buffer, imageData) ==
    IF imageData # Undefined
    THEN analyzeImage(imageData, buffer, TRUE)
    ELSE LET metadata == analyzeImageMetadata(buffer)
         IN  [frequency |-> [hfer |-> 500, svd |-> 0],
              texture |-> Undefined,
              metadata |-> metadata,
              signals |-> metadata.signals]

-----------------------------------------------------------------------------
(* video-detector.ts *)

\* A frame list (ImageData[]) is represented by its length and by the metrics
\* the extractors compute from it: mid (the grid of the middle frame), tiis and
\* fav of the whole list, and per segment of 10 frames the hfer of its first
\* frame and the tiis of its frames.

\* computeTemporalIdentity(frames).tiis
computeTemporalIdentity(frames) == IF frames.length < 2 THEN 0 ELSE frames.tiis

\* computeOpticalFlow(frames).fav
computeOpticalFlow(frames) == IF frames.length < 3 THEN 0 ELSE frames.fav

\* Math.max(1, Math.floor(segmentDurationSec * fps)) with the defaults 5 and 2
FramesPerSegment == 10

NumSegments(length) == (length + FramesPerSegment - 1) \div FramesPerSegment

Clamp01(x) == MaxOf(0, MinOf(1000, x))

\* The segment pushed by the iteration of computeSegmentAuthenticity for
\* 0-based segment segIdx
SegmentOf(frames, segIdx) ==
    LET first == segIdx * FramesPerSegment
        count == MinOf(FramesPerSegment, frames.length - first)
        freqScore == Clamp01(frames.segs[segIdx + 1].hfer * 3)
        segScore == IF count >= 2
                    THEN (freqScore * 600
                          + MaxOf(0, 1000 - frames.segs[segIdx + 1].tiis * 10) * 400)
                         \div 1000
                    ELSE freqScore
    IN  [segmentIndex |-> segIdx,
         startTime |-> first * 500,
         endTime |-> MinOf((first + FramesPerSegment) * 500, frames.length * 500),
         authenticityScore |-> Clamp01(segScore),
         flagged |-> segScore < 500]

\* computeSegmentAuthenticity(frames) with the default duration and fps
computeSegmentAuthenticity(frames) ==
    [j \in 1..NumSegments(frames.length) |-> SegmentOf(frames, j - 1)]

\* analyzeVideo(frames, enableTexture, enableOpticalFlow)
analyzeVideo(frames, enableTexture, enableOpticalFlow) ==
    IF frames = Undefined THEN Throw
    ELSE
    LET frequency == IF frames.length > 0 THEN computeFrequencyMetrics(frames.mid)
                     ELSE Undefined
        texture == IF frames.length > 0 /\ enableTexture
                   THEN computeTextureMetrics(frames.mid) ELSE Undefined
        temporalIdentity == [tiis |-> computeTemporalIdentity(frames)]
        opticalFlow == IF enableOpticalFlow /\ frames.length >= 3
                       THEN [fav |-> computeOpticalFlow(frames)] ELSE Undefined
        segs == computeSegmentAuthenticity(frames)
        flaggedSegments == {j \in 1..Len(segs) : segs[j].flagged}
    IN  [frequency |-> frequency,
         texture |-> texture,
         temporalIdentity |-> temporalIdentity,
         opticalFlow |-> opticalFlow,
         segments |-> segs,
         signals |->
            (IF frames.length > 0 /\ frequency.hfer < 150
             THEN <<Signal("vid-freq-anomaly", "visual",
                           MinOf(900, 500 + (150 - frequency.hfer) * 4),
                           IF frequency.hfer < 80 THEN "high_risk" ELSE "harmful",
                           frequency.hfer)>>
             ELSE << >>)
            \o (IF temporalIdentity.tiis > 50
                THEN <<Signal("vid-tiis-high", "temporal",
                              MinOf(900, 400 + temporalIdentity.tiis * 5),
                              IF temporalIdentity.tiis > 100 THEN "high_risk"
                              ELSE "suspicious",
                              temporalIdentity.tiis)>>
                ELSE << >>)
            \o (IF opticalFlow # Undefined /\ opticalFlow.fav > 500
                THEN <<Signal("vid-fav-high", "temporal",
                              MinOf(850, 300 + opticalFlow.fav \div 2),
                              IF opticalFlow.fav > 1500 THEN "harmful" ELSE "suspicious",
                              opticalFlow.fav)>>
                ELSE << >>)
            \o (IF flaggedSegments # {}
                THEN <<Signal("vid-segment-flags", "temporal",
                              MinOf(800, 400 + (Cardinality(flaggedSegments) * 500)
                                               \div Len(segs)),
                              IF 2 * Cardinality(flaggedSegments) > Len(segs)
                              THEN "harmful" ELSE "suspicious",
                              NullNumber)>>
                ELSE << >>)]

-----------------------------------------------------------------------------
(* audio-detector.ts *)

\* A sample buffer (Float32Array) is represented by its length and by the
\* metrics the extractors compute from it when it holds enough samples:
\* etk, pvss (the variance of the second derivative of the voiced pitch
\* contour), voiced (the number of frames with pitch > 0) and frd.

\* Frames computeSTFT(samples, frameSize, frameSize / 2) returns
StftFrames(samples, frameSize) ==
    IF samples.length < frameSize THEN 0
    ELSE (samples.length - frameSize) \div (frameSize \div 2) + 1

\* computeEnergyTransition(samples).etk: kurtosis() is 0 below 4 deltas
computeEnergyTransition(samples) ==
    IF StftFrames(samples, 1024) - 1 < 4 THEN 0 ELSE samples.etk

\* pitchContour.filter((p) => p > 0).length
VoicedFrames(samples) == MinOf(samples.voiced, StftFrames(samples, 2048))

\* computePitchMetrics(samples).pvss
computePitchMetrics(samples) ==
    IF VoicedFrames(samples) < 4 THEN 0 ELSE samples.pvss

\* computeSpectralFlatness(samples).frd: the mean of no flatness value is 0 / 0
computeSpectralFlatness(samples) ==
    IF StftFrames(samples, 1024) = 0 THEN NaN ELSE samples.frd

\* analyzeAudio(samples)
analyzeAudio(samples) ==
    IF samples = Undefined THEN Throw
    ELSE
    LET energyTransition == [etk |-> computeEnergyTransition(samples)]
        pitch == [pvss |-> computePitchMetrics(samples)]
        spectralFlatness == [frd |-> computeSpectralFlatness(samples)]
    IN  [energyTransition |-> energyTransition,
         pitch |-> pitch,
         spectralFlatness |-> spectralFlatness,
         signals |->
            (IF energyTransition.etk > 5000
             THEN <<Signal("audio-etk-high", "spectral",
                           MinOf(850, 400 + energyTransition.etk \div 20),
                           IF energyTransition.etk > 15000 THEN "high_risk"
                           ELSE "suspicious",
                           energyTransition.etk)>>
             ELSE << >>)
            \o (IF pitch.pvss < 5000 /\ VoicedFrames(samples) > 10
                THEN <<Signal("audio-pvss-smooth", "spectral",
                              MinOf(800, 500 + (5000 - pitch.pvss) \div 20),
                              IF pitch.pvss < 1000 THEN "harmful" ELSE "suspicious",
                              pitch.pvss)>>
                ELSE << >>)
            \o (IF Gt(spectralFlatness.frd, 500)
                THEN <<Signal("audio-frd-anomaly", "spectral",
                              MinOf(750, 300 + (spectralFlatness.frd * 3) \div 10),
                              IF spectralFlatness.frd > 1000 THEN "harmful"
                              ELSE "suspicious",
                              spectralFlatness.frd)>>
                ELSE << >>)]

-----------------------------------------------------------------------------
(* Values of the variables an entry point does not use *)

EmptyVector == [k \in KeySet |-> NullNumber]

NoMetrics == [frequencyMetrics |-> Undefined, textureMetrics |-> Undefined,
              temporalIdentityMetrics |-> Undefined, opticalFlowMetrics |-> Undefined,
              energyTransitionMetrics |-> Undefined, pitchMetrics |-> Undefined,
              spectralFlatnessMetrics |-> Undefined]

PipelineIdle ==
    /\ route = Null
    /\ featureVector = EmptyVector
    /\ signals = << >>
    /\ currentLevel = "level1_lightweight"
    /\ earlyExit = FALSE
    /\ metrics = NoMetrics
    /\ passes = << >>
    /\ result = Null

CusumIdle ==
    /\ i = 0
    /\ cusumUpper = 0
    /\ cusumLower = 0
    /\ alreadyFlagged = {}

-----------------------------------------------------------------------------
(* pipeline.ts: runPipeline *)

\* signals.push(sig) for every sig of incoming whose id is not yet in signals
\* The merge written as a plain push of every incoming signal
MergeNoDedup(sigs, incoming) == sigs \o incoming

\* The merge that drops the earlier signal of an identifier and appends the newer
RECURSIVE MergeReplaceEarlier(_, _)
MergeReplaceEarlier(sigs, incoming) ==
    IF incoming = << >> THEN sigs
    ELSE MergeReplaceEarlier(
             Append(SelectSeq(sigs, LAMBDA sig : sig.id # Head(incoming).id),
                    Head(incoming)),
             Tail(incoming))

RECURSIVE MergeSignals(_, _)
MergeSignals(sigs, incoming) ==
    IF incoming = << >> THEN sigs
    ELSE IF \E k \in 1..Len(sigs) : sigs[k].id = Head(incoming).id
         THEN MergeSignals(sigs, Tail(incoming))
         ELSE MergeSignals(Append(sigs, Head(incoming)), Tail(incoming))

\* The locals of runPipeline that the extraction part of a level block writes
Locals == [featureVector |-> featureVector, signals |-> signals,
           segments |-> segments, metrics |-> metrics]

HasFrames(rt) == rt.frames # Undefined /\ rt.frames.length > 0

\* Lines 68-87: the image branch of the Level 1 block
Level1Image(rt, loc) ==
    IF rt.mediaType # "image" THEN loc
    ELSE LET imgResult == IF rt.imageData # Undefined
                          THEN analyzeImage(rt.imageData, rt.rawBuffer, FALSE)
                          ELSE analyzeImageFromBuffer(rt.rawBuffer, Undefined)
         IN  IF Threw(imgResult) THEN Throw
             ELSE [loc EXCEPT
                     !.featureVector.hfer = imgResult.frequency.hfer,
                     !.featureVector.svd = imgResult.frequency.svd,
                     !.metrics.frequencyMetrics = imgResult.frequency,
                     !.signals = loc.signals \o imgResult.signals]

\* Lines 89-100: the video branch of the Level 1 block
Level1Video(rt, loc) ==
    IF Threw(loc) \/ ~(rt.mediaType = "video" /\ HasFrames(rt)) THEN loc
    ELSE LET vidResult == analyzeVideo(rt.frames, FALSE, FALSE)
         IN  IF Threw(vidResult) THEN Throw
             ELSE [loc EXCEPT
                     !.featureVector.hfer =
                         IF vidResult.frequency # Undefined THEN vidResult.frequency.hfer
                         ELSE loc.featureVector.hfer,
                     !.featureVector.svd =
                         IF vidResult.frequency # Undefined THEN vidResult.frequency.svd
                         ELSE loc.featureVector.svd,
                     !.metrics.frequencyMetrics =
                         IF vidResult.frequency # Undefined THEN vidResult.frequency
                         ELSE loc.metrics.frequencyMetrics,
                     !.featureVector.tiis = vidResult.temporalIdentity.tiis,
                     !.metrics.temporalIdentityMetrics = vidResult.temporalIdentity,
                     !.segments = vidResult.segments,
                     !.signals = loc.signals \o vidResult.signals]

\* Lines 102-108: the audio branch of the Level 1 block
Level1Audio(rt, loc) ==
    IF Threw(loc) \/ ~(rt.mediaType = "audio" /\ rt.audioBuffer # Undefined) THEN loc
    ELSE LET etk == [etk |-> computeEnergyTransition(rt.audioBuffer)]
         IN  [loc EXCEPT !.featureVector.etk = etk.etk,
                         !.metrics.energyTransitionMetrics = etk]

Level1Extract(rt, loc) == Level1Audio(rt, Level1Video(rt, Level1Image(rt, loc)))

\* Lines 130-151: the image branch of the Level 2 block
Level2Image(rt, loc) ==
    IF ~(rt.mediaType = "image" /\ rt.imageData # Undefined) THEN loc
    ELSE LET imgResult == analyzeImage(rt.imageData, rt.rawBuffer, TRUE)
         IN  IF Threw(imgResult) THEN Throw
             ELSE [loc EXCEPT
                     !.featureVector.pdi =
                         IF imgResult.texture # Undefined THEN imgResult.texture.pdi
                         ELSE loc.featureVector.pdi,
                     !.metrics.textureMetrics =
                         IF imgResult.texture # Undefined THEN imgResult.texture
                         ELSE loc.metrics.textureMetrics,
                     !.signals = MergeSignals(loc.signals, imgResult.signals)]

\* Lines 153-173: the video branch of the Level 2 block
Level2Video(rt, loc) ==
    IF Threw(loc) \/ ~(rt.mediaType = "video" /\ HasFrames(rt)) THEN loc
    ELSE LET vidResult == analyzeVideo(rt.frames, TRUE, FALSE)
             first == loc.metrics.temporalIdentityMetrics = Undefined
         IN  IF Threw(vidResult) THEN Throw
             ELSE [loc EXCEPT
                     !.featureVector.pdi =
                         IF vidResult.texture # Undefined THEN vidResult.texture.pdi
                         ELSE loc.featureVector.pdi,
                     !.metrics.textureMetrics =
                         IF vidResult.texture # Undefined THEN vidResult.texture
                         ELSE loc.metrics.textureMetrics,
                     !.featureVector.tiis =
                         IF first THEN vidResult.temporalIdentity.tiis
                         ELSE loc.featureVector.tiis,
                     !.metrics.temporalIdentityMetrics =
                         IF first THEN vidResult.temporalIdentity
                         ELSE loc.metrics.temporalIdentityMetrics,
                     !.segments = vidResult.segments,
                     !.signals = MergeSignals(loc.signals, vidResult.signals)]

\* Lines 175-184: the audio branch of the Level 2 block
Level2Audio(rt, loc) ==
    IF Threw(loc) \/ rt.audioBuffer = Undefined THEN loc
    ELSE LET audioResult == analyzeAudio(rt.audioBuffer)
         IN  IF Threw(audioResult) THEN Throw
             ELSE [loc EXCEPT
                     !.featureVector.etk = audioResult.energyTransition.etk,
                     !.featureVector.pvss = audioResult.pitch.pvss,
                     !.featureVector.frd = audioResult.spectralFlatness.frd,
                     !.metrics.energyTransitionMetrics = audioResult.energyTransition,
                     !.metrics.pitchMetrics = audioResult.pitch,
                     !.metrics.spectralFlatnessMetrics = audioResult.spectralFlatness,
                     !.signals = loc.signals \o audioResult.signals]

\* The Level 2 extraction filling a fresh feature vector instead of the running one
Level2ExtractFresh(rt, loc) ==
    Level2Audio(rt, Level2Video(rt, Level2Image(rt,
        [loc EXCEPT !.featureVector = EmptyVector])))

Level2Extract(rt, loc) == Level2Audio(rt, Level2Video(rt, Level2Image(rt, loc)))

\* Lines 205-220: the video branch of the Level 3 block
Level3Video(rt, loc) ==
    IF ~(rt.mediaType = "video" /\ rt.frames # Undefined /\ rt.frames.length >= 3)
    THEN loc
    ELSE LET vidResult == analyzeVideo(rt.frames, TRUE, TRUE)
         IN  IF Threw(vidResult) THEN Throw
             ELSE [loc EXCEPT
                     !.featureVector.fav =
                         IF vidResult.opticalFlow # Undefined
                         THEN vidResult.opticalFlow.fav ELSE loc.featureVector.fav,
                     !.metrics.opticalFlowMetrics =
                         IF vidResult.opticalFlow # Undefined
                         THEN vidResult.opticalFlow ELSE loc.metrics.opticalFlowMetrics,
                     !.segments = vidResult.segments,
                     !.signals = MergeSignals(loc.signals, vidResult.signals)]

\* The synthesized signal under the identifier of the extractor's segment signal
CusumSignalSegmentId(n) ==
    Signal("vid-segment-flags", "temporal", MinOf(900, 500 + n * 150),
           IF n > 2 THEN "high_risk" ELSE "harmful", NullNumber)

\* The synthesized signal of lines 227-234 for n change points
CusumSignal(n) ==
    Signal("cusum-changepoints", "temporal", MinOf(900, 500 + n * 150),
           IF n > 2 THEN "high_risk" ELSE "harmful", NullNumber)

-----------------------------------------------------------------------------
(* The Confidence Manager called on its own *)

\* Largest stability counter passed to evaluateEscalation
MaxStable == 4

\* Calibrated probabilities passed to evaluateEscalation (thousandths, and NaN)
EscalationProbabilities ==
    {0, 30, 49, 50, 51, 249, 250, 251, 500, 749, 750, 751, 949, 950, 951, 970, 1000, NaN}

EscalationCalls ==
    [op : {"evaluateEscalation"}, currentLevel : AnalysisLevel,
     fakeProbability : EscalationProbabilities, stableFrameCount : 0..MaxStable]

\* File sizes in bytes passed to determineStartLevel
FileSizes == {0, 1000, 499999, 500000, 500001, 20000000, 20000001}

StartLevelCalls ==
    [op : {"determineStartLevel"}, mediaType : DetectedMediaType, fileSize : FileSizes]

InitConfidence ==
    /\ pc = "call"
    /\ call \in EscalationCalls \cup StartLevelCalls
    /\ ret = Null
    /\ segments = << >>
    /\ changePoints = << >>
    /\ PipelineIdle
    /\ CusumIdle

\* ret holds the decision together with the value Math.random() produced
EvaluateEscalation ==
    /\ pc = "call"
    /\ call.op = "evaluateEscalation"
    /\ \E draw \in Draws :
          ret' = [decision |-> evaluateEscalation(call.currentLevel, call.fakeProbability,
                                                  call.stableFrameCount, draw),
                  draw |-> draw]
    /\ pc' = "return"
    /\ UNCHANGED << call, segments, changePoints, pipelineVars, cusumVars >>

DetermineStartLevel ==
    /\ pc = "call"
    /\ call.op = "determineStartLevel"
    /\ ret' = determineStartLevel(call.mediaType, call.fileSize)
    /\ pc' = "return"
    /\ UNCHANGED << call, segments, changePoints, pipelineVars, cusumVars >>

NextConfidence == EvaluateEscalation \/ DetermineStartLevel

SpecConfidence == InitConfidence /\ [][NextConfidence]_vars

Returned(op) == pc = "return" /\ call.op = op

-----------------------------------------------------------------------------
(* The Scoring Engine called on its own *)

\* Measured values a slot takes in the vectors passed to the Scoring Engine
SlotValues ==
    [hfer |-> {0, 400}, svd |-> {0, 600}, pdi |-> {0, 30}, tiis |-> {0, 80},
     fav |-> {0, 800}, etk |-> {0, 9000}, pvss |-> {0, 80000}, frd |-> {0, 700, NaN}]

ScoringVectorSet ==
    [hfer : SlotValues.hfer \cup {NullNumber}, svd : SlotValues.svd \cup {NullNumber},
     pdi : SlotValues.pdi \cup {NullNumber}, tiis : SlotValues.tiis \cup {NullNumber},
     fav : SlotValues.fav \cup {NullNumber}, etk : SlotValues.etk \cup {NullNumber},
     pvss : SlotValues.pvss \cup {NullNumber}, frd : SlotValues.frd \cup {NullNumber}]

\* Probabilities passed to classifyRisk
RiskProbabilities == (0..1000) \cup {NaN}

\* Raw scores passed to plattScale
RawScores == {0, 100, 200, 400, 800, 1600, 3200, 6400, NaN}

ScoringCalls ==
    [op : {"computeEnsembleScore", "scoreFeatureVector"}, vector : ScoringVectorSet]
    \cup [op : {"classifyRisk"}, probability : RiskProbabilities]
    \cup [op : {"plattScale"}, rawScore : RawScores]

InitScoring ==
    /\ pc = "call"
    /\ call \in ScoringCalls
    /\ ret = Null
    /\ segments = << >>
    /\ changePoints = << >>
    /\ PipelineIdle
    /\ CusumIdle

ComputeEnsembleScore ==
    /\ pc = "call"
    /\ call.op = "computeEnsembleScore"
    /\ ret' = computeEnsembleScore(call.vector)
    /\ pc' = "return"
    /\ UNCHANGED << call, segments, changePoints, pipelineVars, cusumVars >>

PlattScale ==
    /\ pc = "call"
    /\ call.op = "plattScale"
    /\ ret' = plattScale(call.rawScore)
    /\ pc' = "return"
    /\ UNCHANGED << call, segments, changePoints, pipelineVars, cusumVars >>

ClassifyRisk ==
    /\ pc = "call"
    /\ call.op = "classifyRisk"
    /\ ret' = classifyRisk(call.probability)
    /\ pc' = "return"
    /\ UNCHANGED << call, segments, changePoints, pipelineVars, cusumVars >>

ScoreFeatureVector ==
    /\ pc = "call"
    /\ call.op = "scoreFeatureVector"
    /\ ret' = scoreFeatureVector(call.vector)
    /\ pc' = "return"
    /\ UNCHANGED << call, segments, changePoints, pipelineVars, cusumVars >>

NextScoring == ComputeEnsembleScore \/ PlattScale \/ ClassifyRisk \/ ScoreFeatureVector

SpecScoring == InitScoring /\ [][NextScoring]_vars

-----------------------------------------------------------------------------
(* Claims about the Confidence Manager (SpecConfidence) *)

EarlyExitCondition(p, stable) == (Gt(p, 950) \/ Lt(p, 50)) /\ stable >= 3

InAmbiguousBand(p) == Ge(p, 250) /\ Le(p, 750)

NextLevelOf(level) ==
    IF level = "level1_lightweight" THEN "level2_deep_spatial"
    ELSE "level3_temporal_crossmodal"

\* C1: for every current level and every draw, a probability above 0.95 or
\* below 0.05 with a stability counter of at least 3 gives
\* shouldEscalate = false, earlyExit = true, nextLevel = null.
C1_EarlyExitDecision ==
    (Returned("evaluateEscalation")
        /\ EarlyExitCondition(call.fakeProbability, call.stableFrameCount))
    => /\ ret.decision.shouldEscalate = FALSE
       /\ ret.decision.earlyExit = TRUE
       /\ ret.decision.nextLevel = Null

C1_Witness ==
    /\ Returned("evaluateEscalation")
    /\ call.fakeProbability = 970
    /\ call.stableFrameCount = 3
    /\ call.currentLevel = "level1_lightweight"
    /\ ret.draw = 0
    /\ ret.decision.earlyExit

C3_RandomizedEscalation ==
    Returned("evaluateEscalation")
    => /\ (call.currentLevel # "level3_temporal_crossmodal"
              /\ ~EarlyExitCondition(call.fakeProbability, call.stableFrameCount)
              /\ ~InAmbiguousBand(call.fakeProbability))
          => IF ret.draw < 200
             THEN /\ ret.decision.shouldEscalate = TRUE
                  /\ ret.decision.nextLevel = NextLevelOf(call.currentLevel)
                  /\ ret.decision.earlyExit = FALSE
             ELSE /\ ret.decision.shouldEscalate = FALSE
                  /\ ret.decision.nextLevel = Null
                  /\ ret.decision.earlyExit = FALSE
       /\ call.currentLevel = "level3_temporal_crossmodal"
          => /\ ret.decision.shouldEscalate = FALSE
             /\ ret.decision.nextLevel = Null

C3_Witness ==
    /\ Returned("evaluateEscalation")
    /\ call.fakeProbability = 970
    /\ call.stableFrameCount = 0
    /\ call.currentLevel = "level1_lightweight"
    /\ ret.draw = 199
    /\ ret.decision.shouldEscalate
    /\ ret.decision.reason = "randomized"

\* C4: determineStartLevel returns Level 2 exactly when the kind is audio or the
\* kind is image with a size below 500,000 bytes, Level 1 in every other case,
\* and never Level 3.
C4_StartLevel ==
    Returned("determineStartLevel")
    => /\ ret = "level2_deep_spatial"
          <=> (call.mediaType = "audio"
               \/ (call.mediaType = "image" /\ call.fileSize < 500000))
       /\ ret # "level2_deep_spatial" => ret = "level1_lightweight"
       /\ ret # "level3_temporal_crossmodal"

C4_Witness ==
    /\ Returned("determineStartLevel")
    /\ call.mediaType = "image"
    /\ call.fileSize = 500000
    /\ ret = "level1_lightweight"

-----------------------------------------------------------------------------
(* Claims about the Scoring Engine (SpecScoring) *)

RiskRank(level) == CHOOSE r \in 1..Len(RiskOrder) : RiskOrder[r] = level

\* C9: classifyRisk is monotonic (p <= q implies tier(p) <= tier(q) in the
\* order low < suspicious < harmful < high_risk) and each boundary belongs to
\* the upper tier: 0.3 suspicious, 0.55 harmful, 0.8 high_risk, and a p just
\* below a boundary gets the next lower tier.
C9_ClassifyRiskMonotonic ==
    (Returned("classifyRisk") /\ ~IsNaN(call.probability))
    => /\ \A q \in 0..1000 :
             call.probability <= q
             => RiskRank(ret.riskLevel) <= RiskRank(classifyRisk(q).riskLevel)
       /\ call.probability = 300 => ret.riskLevel = "suspicious"
       /\ call.probability = 550 => ret.riskLevel = "harmful"
       /\ call.probability = 800 => ret.riskLevel = "high_risk"
       /\ call.probability = 299 => ret.riskLevel = "low"
       /\ call.probability = 549 => ret.riskLevel = "suspicious"
       /\ call.probability = 799 => ret.riskLevel = "harmful"

C9_Witness ==
    /\ Returned("classifyRisk")
    /\ call.probability = 550
    /\ ret.riskLevel = "harmful"

Populated(vector) == {k \in KeySet : vector[k] # NullNumber}

RECURSIVE SumOver(_, _)
SumOver(S, f) ==
    IF S = {} THEN 0
    ELSE LET k == CHOOSE x \in S : TRUE
         IN  f[k] + SumOver(S \ {k}, f)

\* C10: computeEnsembleScore is the sum over the populated slots of weight x
\* one-sided anomaly contribution divided by the sum of the weights of the
\* populated slots only; a slot measured as 0 is populated; the result is never
\* negative; with all 8 slots populated the denominator is the sum of the 8
\* baseline weights.
C10_EnsembleScore ==
    Returned("computeEnsembleScore")
    => LET P == Populated(call.vector)
           finite == \A k \in P : ~IsNaN(call.vector[k])
           weights == [k \in KeySet |-> FEATURE_BASELINES[k].weight]
           terms == [k \in KeySet |->
                        IF k \in P /\ ~IsNaN(call.vector[k])
                        THEN weights[k] * normalizeFeature(k, call.vector[k])
                        ELSE 0]
       IN  /\ ensembleSums(call.vector).totalWeight = SumOver(P, weights)
           /\ (P # {} /\ finite) => ret = SumOver(P, terms) \div SumOver(P, weights)
           /\ P = {} => ret = 0
           /\ ~Lt(ret, 0)
           /\ P = KeySet
              => ensembleSums(call.vector).totalWeight = SumOver(KeySet, weights)

C10_Witness ==
    /\ Returned("computeEnsembleScore")
    /\ call.vector.hfer = 0
    /\ call.vector.svd = 0
    /\ call.vector.pdi = NullNumber
    /\ call.vector.frd = 700
    /\ ret > 0

\* C11: for a feature vector with no slot populated computeEnsembleScore
\* returns 0, and scoreFeatureVector returns raw score 0 and, as calibrated
\* probability, the Platt transform of 0 with the default coefficients
\* 1 / (1 + e^1) = 0.2689.
C11_EmptyVectorScore ==
    /\ (Returned("computeEnsembleScore") /\ call.vector = EmptyVector) => ret = 0
    /\ (Returned("scoreFeatureVector") /\ call.vector = EmptyVector)
       => /\ ret.rawScore = 0
          /\ ret.fakeProbability = plattScaleAB(0, 2500, -1000)
          /\ ret.fakeProbability = 268

C11_Witness ==
    /\ Returned("scoreFeatureVector")
    /\ call.vector = EmptyVector
    /\ ret.fakeProbability = 268
    /\ ret.riskLevel = "low"

-----------------------------------------------------------------------------
(* The Change Detector called on its own: detectChangePoints, one loop        *)
(* iteration per step, then enrichSegmentsWithChangePoints on its result     *)

\* Longest segment sequence passed to detectChangePoints
MaxSegments == 7

CoarseScores == {0, 500, 1000}

FineScores == {100 * x : x \in 0..10}

ScoreSequences ==
    UNION {[1..l -> CoarseScores] : l \in 0..MaxSegments}
    \cup {[j \in 1..l |-> c] : l \in 3..MaxSegments, c \in FineScores}

\* Segments of 5 s carrying the given scores, flagged as computeSegmentAuthenticity
\* flags them (score < 0.5)
MakeSegments(scores) ==
    [j \in 1..Len(scores) |->
        [segmentIndex |-> j - 1, startTime |-> 5000 * (j - 1), endTime |-> 5000 * j,
         authenticityScore |-> scores[j], flagged |-> scores[j] < 500]]

CusumCalls ==
    {[op |-> "detectChangePoints", segments |-> MakeSegments(sc),
      allowance |-> 100, threshold |-> 500] : sc \in ScoreSequences}

InitCusum ==
    /\ pc = "call"
    /\ call \in CusumCalls
    /\ ret = Null
    /\ segments = call.segments
    /\ changePoints = << >>
    /\ PipelineIdle
    /\ CusumIdle

\* if (segments.length < 3) return []
DetectTooShort ==
    /\ pc = "call"
    /\ call.op = "detectChangePoints"
    /\ Len(segments) < 3
    /\ changePoints' = << >>
    /\ ret' = << >>
    /\ pc' = "return"
    /\ UNCHANGED << call, segments, pipelineVars, cusumVars >>

DetectBegin ==
    /\ pc = "call"
    /\ call.op = "detectChangePoints"
    /\ Len(segments) >= 3
    /\ i' = 0
    /\ cusumUpper' = CusumStart.cusumUpper
    /\ cusumLower' = CusumStart.cusumLower
    /\ changePoints' = CusumStart.changePoints
    /\ alreadyFlagged' = CusumStart.alreadyFlagged
    /\ pc' = "loop"
    /\ UNCHANGED << call, ret, segments, pipelineVars >>

DetectIterate ==
    /\ pc = "loop"
    /\ i < Len(segments)
    /\ LET st == CusumStep([cusumUpper |-> cusumUpper, cusumLower |-> cusumLower,
                            changePoints |-> changePoints,
                            alreadyFlagged |-> alreadyFlagged],
                           segments, i, call.allowance, call.threshold)
       IN  /\ cusumUpper' = st.cusumUpper
           /\ cusumLower' = st.cusumLower
           /\ changePoints' = st.changePoints
           /\ alreadyFlagged' = st.alreadyFlagged
    /\ i' = i + 1
    /\ UNCHANGED << pc, call, ret, segments, pipelineVars >>

DetectReturn ==
    /\ pc = "loop"
    /\ i >= Len(segments)
    /\ ret' = changePoints
    /\ pc' = "return"
    /\ UNCHANGED << call, segments, changePoints, pipelineVars, cusumVars >>

\* enrichSegmentsWithChangePoints(segments, changePoints) on what was returned
Enrich ==
    /\ pc = "return"
    /\ call.op = "detectChangePoints"
    /\ segments' = enrichSegmentsWithChangePoints(segments, changePoints, 1)
    /\ pc' = "enriched"
    /\ UNCHANGED << call, ret, changePoints, pipelineVars, cusumVars >>

NextCusum == DetectTooShort \/ DetectBegin \/ DetectIterate \/ DetectReturn \/ Enrich

SpecCusum == InitCusum /\ [][NextCusum]_vars

-----------------------------------------------------------------------------
(* Claims about the Change Detector (SpecCusum) *)

IsConstant(segs) ==
    \A j, k \in 1..Len(segs) : segs[j].authenticityScore = segs[k].authenticityScore

\* C7: with allowance 0.1 and threshold 0.5 no change point is reported for a
\* constant authenticity sequence of length at least 3, whatever the constant.
C7_ConstantNoChangePoint ==
    (call.op = "detectChangePoints" /\ Len(call.segments) >= 3
        /\ IsConstant(call.segments))
    => /\ changePoints = << >>
       /\ pc \in {"return", "enriched"} => ret = << >>

C7_Witness ==
    /\ pc = "return"
    /\ call.op = "detectChangePoints"
    /\ Len(call.segments) >= 6
    /\ IsConstant(call.segments)
    /\ call.segments[1].authenticityScore = 300
    /\ ret = << >>

\* segs is a ones scores of 1.0 followed by zeros scores of 0.0
IsDrop(segs, ones, zeros) ==
    /\ Len(segs) = ones + zeros
    /\ \A j \in 1..Len(segs) :
          segs[j].authenticityScore = IF j <= ones THEN 1000 ELSE 0

IncreasePoints(cps) == {k \in 1..Len(cps) : cps[k].direction = "increase"}

\* C8: for a run of scores 1.0 followed by a drop to 0.0 sustained for several
\* segments (here: at least 2 ones, at least 3 zeros), detectChangePoints emits
\* exactly one change point of direction increase, inside the drop, and after
\* enrichSegmentsWithChangePoints a segment within radius 1 of it is flagged.
C8_SingleIncreaseAtDrop ==
    \A ones \in 2..MaxSegments, zeros \in 3..MaxSegments :
        (pc = "enriched" /\ call.op = "detectChangePoints"
            /\ IsDrop(call.segments, ones, zeros))
        => /\ Cardinality(IncreasePoints(changePoints)) = 1
           /\ \A k \in IncreasePoints(changePoints) :
                 /\ changePoints[k].segmentIndex >= ones
                 /\ \E j \in 1..Len(segments) :
                       /\ j - 1 >= changePoints[k].segmentIndex - 1
                       /\ j - 1 <= changePoints[k].segmentIndex + 1
                       /\ segments[j].flagged

\* A change point of the direction was emitted at 0-based index idx
EmittedAt(cps, idx, direction) ==
    \E k \in 1..Len(cps) : cps[k].segmentIndex = idx /\ cps[k].direction = direction

\* n times the increment of the statistic of the direction at 0-based index idx
Increment(segs, idx, direction, allowance) ==
    LET n == Len(segs)
        sum == SumOver(1..n, [j \in 1..n |-> segs[j].authenticityScore])
        score == segs[idx + 1].authenticityScore
    IN  IF direction = "increase" THEN sum - n * score - n * allowance
        ELSE n * score - sum - n * allowance

\* The iteration at index i follows an emission of the direction at index i - 1
AfterEmission(direction) ==
    /\ pc = "loop" /\ pc' = "loop" /\ i' = i + 1 /\ i >= 1
    /\ EmittedAt(changePoints, i - 1, direction)

\* n times max(0, increment at index i): the statistic started again from 0
FreshStatistic(direction) ==
    MaxOf(0, Increment(segments, i, direction, call.allowance))

NoIndexTwicePerDirection ==
    \A j, k \in 1..Len(changePoints) :
        (j # k /\ changePoints[j].direction = changePoints[k].direction)
        => changePoints[j].segmentIndex # changePoints[k].segmentIndex

ZeroRightAfterEmission ==
    (pc = "loop" /\ i >= 1)
    => /\ EmittedAt(changePoints, i - 1, "increase") => cusumUpper = 0
       /\ EmittedAt(changePoints, i - 1, "decrease") => cusumLower = 0

RestartsAfterEmission(direction, statNext) ==
    AfterEmission(direction)
    => IF FreshStatistic(direction) > Len(segments) * call.threshold
       THEN /\ statNext = 0
            /\ changePoints'[Len(changePoints')] =
                  [timestamp |-> segments[i + 1].startTime, segmentIndex |-> i,
                   cusumValue |-> FreshStatistic(direction), direction |-> direction]
       ELSE statNext = FreshStatistic(direction)

NearChangePoint(cps, pos, direction, radius) ==
    \E k \in 1..Len(cps) :
        /\ cps[k].direction = direction
        /\ pos >= cps[k].segmentIndex - radius
        /\ pos <= cps[k].segmentIndex + radius

\* C19: after enrichSegmentsWithChangePoints (radius 1) a segment is flagged
\* exactly when it was flagged in the input or its position lies within the
\* radius of a change point of direction increase; change points of direction
\* decrease flag nothing; the number and order of the segments and their
\* other fields are unchanged.
C19_EnrichFlagsOnly ==
    (pc = "enriched" /\ call.op = "detectChangePoints")
    => /\ Len(segments) = Len(call.segments)
       /\ \A j \in 1..Len(segments) :
             /\ segments[j].flagged
                   = (call.segments[j].flagged
                      \/ NearChangePoint(changePoints, j - 1, "increase", 1))
             /\ segments[j].segmentIndex = call.segments[j].segmentIndex
             /\ segments[j].startTime = call.segments[j].startTime
             /\ segments[j].endTime = call.segments[j].endTime
             /\ segments[j].authenticityScore = call.segments[j].authenticityScore

C19_Witness ==
    /\ pc = "enriched"
    /\ call.op = "detectChangePoints"
    /\ \E j \in 1..Len(segments) : ~call.segments[j].flagged /\ segments[j].flagged
    /\ \E j \in 1..Len(segments) :
          /\ ~segments[j].flagged
          /\ NearChangePoint(changePoints, j - 1, "decrease", 1)
    /\ \E j \in 1..Len(segments) :
          /\ call.segments[j].flagged
          /\ ~NearChangePoint(changePoints, j - 1, "increase", 1)

-----------------------------------------------------------------------------
(* runPipeline, one step per block *)

\* Raw byte buffers of image files
EmptyBuffer == << >>
JpegPlain == <<255, 216, 255, 224, 0, 4, 0, 0, 255, 217>>
JpegExifAI == <<255, 216, 255, 225, 0, 6, 65, 73, 0, 0>>
JpegRecompressed == <<255, 216, 255, 219, 0, 2, 255, 219, 0, 2, 255, 219, 0, 2,
                      255, 225, 0, 2, 0, 0>>
PngText == <<137, 80, 78, 71, 116, 69, 88, 116>>
PngGimp == <<137, 80, 78, 71, 71, 73, 77, 80>>
GifHeader == <<71, 73, 70, 56>>

ImageBuffers == {EmptyBuffer, JpegPlain, JpegExifAI, JpegRecompressed, PngText,
                 PngGimp, GifHeader}

\* Decoded pixel grids, by their metrics
PixelGrids == [hfer : {100, 300}, svd : {100, 600}, pdi : {10, 30}]

\* Numbers of frames the router extracts from a video
FrameCounts == {0, 1, 2, 3, 21, 31}

\* hfer of the first frame and tiis of the frames of a segment: an authentic
\* segment (score 1), a manipulated one (score 0), and two in between (scores
\* 0.05 and 0.3 with several frames, 0.084 and 0.501 with one frame)
SegmentFeatures ==
    {[hfer |-> 400, tiis |-> 0], [hfer |-> 0, tiis |-> 100],
     [hfer |-> 28, tiis |-> 100], [hfer |-> 167, tiis |-> 100]}

FrameLists ==
    UNION {
        [length : {n},
         mid : IF n = 0 THEN {[hfer |-> 300, svd |-> 100, pdi |-> 10]}
               ELSE {[hfer |-> 100, svd |-> 100, pdi |-> 10],
                     [hfer |-> 300, svd |-> 100, pdi |-> 30]},
         tiis : IF n < 2 THEN {0} ELSE {0, 80},
         fav : IF n < 3 THEN {0} ELSE {0, 800},
         segs : [1..NumSegments(n) -> SegmentFeatures]] : n \in FrameCounts}

\* Decoded sample buffers, by their length and metrics
AudioBuffers ==
    {[length |-> 512, etk |-> 0, pvss |-> 0, voiced |-> 0, frd |-> 0]}
    \cup [length : {44100}, etk : {1000, 9000}, pvss : {500, 60000},
          voiced : {3, 11}, frd : {100, 700}]

\* The audio tracks the model gives a video
VideoAudioTracks ==
    {Undefined,
     [length |-> 512, etk |-> 0, pvss |-> 0, voiced |-> 0, frd |-> 0],
     [length |-> 44100, etk |-> 9000, pvss |-> 500, voiced |-> 11, frd |-> 700]}

\* The MediaRouteDecision routeMedia resolves to
Routes ==
    [mediaType : {"image"}, fileSize : {1000, 500000},
     imageData : PixelGrids \cup {Undefined}, rawBuffer : ImageBuffers,
     frames : {Undefined}, audioBuffer : {Undefined}]
    \cup [mediaType : {"video"}, fileSize : {1000, 20000001},
          imageData : {Undefined}, rawBuffer : {EmptyBuffer},
          frames : FrameLists, audioBuffer : VideoAudioTracks]
    \cup [mediaType : {"audio"}, fileSize : {1000},
          imageData : {Undefined}, rawBuffer : {EmptyBuffer},
          frames : {Undefined}, audioBuffer : AudioBuffers \cup {Undefined}]
    \cup [mediaType : {"unknown"}, fileSize : {1000},
          imageData : {Undefined}, rawBuffer : {EmptyBuffer, GifHeader},
          frames : {Undefined}, audioBuffer : {Undefined}]

Init ==
    /\ pc = "entry"
    /\ call = Null
    /\ ret = Null
    /\ route \in Routes
    /\ featureVector = EmptyVector
    /\ signals = << >>
    /\ segments = << >>
    /\ changePoints = << >>
    /\ currentLevel = "level1_lightweight"
    /\ earlyExit = FALSE
    /\ metrics = NoMetrics
    /\ passes = << >>
    /\ result = Null
    /\ CusumIdle

\* Lines 38-63: the locals are initialised, the start level is chosen
Begin ==
    /\ pc = "entry"
    /\ featureVector' = EmptyVector
    /\ signals' = << >>
    /\ segments' = << >>
    /\ changePoints' = << >>
    /\ currentLevel' = determineStartLevel(route.mediaType, route.fileSize)
    /\ earlyExit' = FALSE
    /\ metrics' = NoMetrics
    /\ pc' = "level1"
    /\ UNCHANGED << call, ret, route, passes, result, cusumVars >>

\* Lines 65-125: the Level 1 block
RunLevel1 ==
    /\ pc = "level1"
    /\ currentLevel \in AnalysisLevel
    /\ \E loc \in {Level1Extract(route, Locals)} :
           IF Threw(loc)
           THEN /\ pc' = "failed"
                /\ UNCHANGED << featureVector, signals, segments, metrics,
                                currentLevel, earlyExit, passes >>
           ELSE \E draw \in Draws, scoring \in {scoreFeatureVector(loc.featureVector)} :
                  \E escalation \in {evaluateEscalation("level1_lightweight",
                                          scoring.fakeProbability, 0, draw)} :
                      /\ featureVector' = loc.featureVector
                      /\ signals' = loc.signals
                      /\ segments' = loc.segments
                      /\ metrics' = loc.metrics
                      /\ earlyExit' = IF escalation.earlyExit THEN TRUE ELSE earlyExit
                      /\ currentLevel' =
                            IF escalation.earlyExit THEN "level1_lightweight"
                            ELSE IF escalation.shouldEscalate
                                    /\ currentLevel = "level1_lightweight"
                                 THEN "level2_deep_spatial"
                                 ELSE currentLevel
                      /\ passes' = Append(passes,
                                      [level |-> "level1_lightweight",
                                       rawScore |-> scoring.rawScore,
                                       fakeProbability |-> scoring.fakeProbability,
                                       escalation |-> escalation])
                      /\ pc' = "level2"
    /\ UNCHANGED << call, ret, route, changePoints, result, cusumVars >>

\* The Level 2 condition without its test of the current level
Level2ConditionAnyLevel == ~earlyExit

\* The Level 2 condition holding only after a Level 1 decision to escalate
Level2ConditionEscalatedOnly ==
    /\ ~earlyExit
    /\ currentLevel \in {"level2_deep_spatial", "level3_temporal_crossmodal"}
    /\ passes[Len(passes)].escalation.shouldEscalate

Level2Condition ==
    ~earlyExit /\ currentLevel \in {"level2_deep_spatial", "level3_temporal_crossmodal"}

\* Lines 127-200: the Level 2 block
RunLevel2 ==
    /\ pc = "level2"
    /\ Level2Condition
    /\ \E loc \in {Level2Extract(route, Locals)} :
           IF Threw(loc)
           THEN /\ pc' = "failed"
                /\ UNCHANGED << featureVector, signals, segments, metrics,
                                currentLevel, earlyExit, passes >>
           ELSE \E draw \in Draws, scoring \in {scoreFeatureVector(loc.featureVector)} :
                  \E escalation \in {evaluateEscalation("level2_deep_spatial",
                                          scoring.fakeProbability, 0, draw)} :
                      /\ featureVector' = loc.featureVector
                      /\ signals' = loc.signals
                      /\ segments' = loc.segments
                      /\ metrics' = loc.metrics
                      /\ earlyExit' = IF escalation.earlyExit THEN TRUE ELSE earlyExit
                      /\ currentLevel' =
                            IF ~escalation.earlyExit /\ escalation.shouldEscalate
                            THEN "level3_temporal_crossmodal"
                            ELSE currentLevel
                      /\ passes' = Append(passes,
                                      [level |-> "level2_deep_spatial",
                                       rawScore |-> scoring.rawScore,
                                       fakeProbability |-> scoring.fakeProbability,
                                       escalation |-> escalation])
                      /\ pc' = "level3"
    /\ UNCHANGED << call, ret, route, changePoints, result, cusumVars >>

\* The condition of line 128 is false
SkipLevel2 ==
    /\ pc = "level2"
    /\ ~Level2Condition
    /\ pc' = "level3"
    /\ UNCHANGED << call, ret, route, featureVector, signals, segments, changePoints,
                    currentLevel, earlyExit, metrics, passes, result, cusumVars >>

\* The test of line 223 written segments.length > 3
ChangeDetectionRunsAbove3(segs) == Len(segs) > 3

\* Line 223: the Change Detector is run on the segments
ChangeDetectionRuns(segs) == Len(segs) >= 3

\* The Level 3 condition without its test of the current level
Level3ConditionAnyLevel == ~earlyExit

Level3Condition == ~earlyExit /\ currentLevel = "level3_temporal_crossmodal"

\* Lines 202-237: the Level 3 block with the CUSUM change detection
RunLevel3 ==
    /\ pc = "level3"
    /\ Level3Condition
    /\ \E loc \in {Level3Video(route, Locals)} :
           IF Threw(loc)
           THEN /\ pc' = "failed"
                /\ UNCHANGED << featureVector, signals, segments, metrics,
                                changePoints, passes >>
           ELSE \E found \in {IF ChangeDetectionRuns(loc.segments)
                                 THEN detectChangePoints(loc.segments, 100, 500)
                                 ELSE changePoints} :
                    /\ featureVector' = loc.featureVector
                    /\ metrics' = loc.metrics
                    /\ changePoints' = found
                    /\ segments' =
                          IF ChangeDetectionRuns(loc.segments) /\ Len(found) > 0
                          THEN enrichSegmentsWithChangePoints(loc.segments, found, 1)
                          ELSE loc.segments
                    /\ signals' =
                          IF ChangeDetectionRuns(loc.segments) /\ Len(found) > 0
                          THEN Append(loc.signals, CusumSignal(Len(found)))
                          ELSE loc.signals
                    /\ passes' = Append(passes,
                                    [level |-> "level3_temporal_crossmodal"])
                    /\ pc' = "final"
    /\ UNCHANGED << call, ret, route, currentLevel, earlyExit, result, cusumVars >>

\* The condition of line 203 is false
SkipLevel3 ==
    /\ pc = "level3"
    /\ ~Level3Condition
    /\ pc' = "final"
    /\ UNCHANGED << call, ret, route, featureVector, signals, segments, changePoints,
                    currentLevel, earlyExit, metrics, passes, result, cusumVars >>

\* Lines 239-272: the final scoring pass and the returned AMAFAnalysisResult
FinalScoring ==
    /\ pc = "final"
    /\ \E scoring \in {scoreFeatureVector(featureVector)} :
           result' = [featureVector |-> featureVector,
                      fakeProbability |-> scoring.fakeProbability,
                      calibratedProbability |-> scoring.fakeProbability,
                      riskLevel |-> scoring.riskLevel,
                      riskScore |-> scoring.riskScore,
                      analysisLevel |-> currentLevel,
                      earlyExit |-> earlyExit,
                      frequencyMetrics |-> metrics.frequencyMetrics,
                      textureMetrics |-> metrics.textureMetrics,
                      temporalIdentityMetrics |-> metrics.temporalIdentityMetrics,
                      opticalFlowMetrics |-> metrics.opticalFlowMetrics,
                      energyTransitionMetrics |-> metrics.energyTransitionMetrics,
                      pitchMetrics |-> metrics.pitchMetrics,
                      spectralFlatnessMetrics |-> metrics.spectralFlatnessMetrics,
                      segments |-> segments,
                      changePoints |-> changePoints,
                      signals |-> signals]
    /\ pc' = "done"
    /\ UNCHANGED << call, ret, route, featureVector, signals, segments, changePoints,
                    currentLevel, earlyExit, metrics, passes, cusumVars >>

Next == Begin \/ RunLevel1 \/ RunLevel2 \/ SkipLevel2 \/ RunLevel3 \/ SkipLevel3
        \/ FinalScoring

Spec == Init /\ [][Next]_vars

-----------------------------------------------------------------------------
(* Claims about runPipeline (Spec) *)

DistinctIds(sigs) ==
    \A j, k \in 1..Len(sigs) : j # k => sigs[j].id # sigs[k].id

\* C5: the signal identifiers of the returned Analysis Result are pairwise
\* distinct, for every media kind, payload combination and escalation path,
\* the appended change-point signal included.
C5_SignalIdsUnique ==
    /\ DistinctIds(signals)
    /\ pc = "done" => DistinctIds(result.signals)

C5_Witness ==
    /\ pc = "done"
    /\ route.mediaType = "video"
    /\ route.audioBuffer # Undefined
    /\ result.analysisLevel = "level3_temporal_crossmodal"
    /\ Len(result.signals) >= 6
    /\ \E k \in 1..Len(result.signals) : result.signals[k].id = "cusum-changepoints"
    /\ \E k \in 1..Len(result.signals) : result.signals[k].id = "audio-frd-anomaly"
    /\ \E k \in 1..Len(result.signals) : result.signals[k].id = "vid-freq-anomaly"

\* The router supplied no decoded payload
NoPayload(rt) ==
    \/ rt.mediaType = "image" /\ rt.imageData = Undefined
    \/ rt.mediaType = "video" /\ rt.frames.length = 0 /\ rt.audioBuffer = Undefined
    \/ rt.mediaType = "audio" /\ rt.audioBuffer = Undefined
    \/ rt.mediaType = "unknown"

\* C6: for every media kind combined with the absence of its decoded payload
\* no block of runPipeline fails, so the call runs on to its return, and every
\* signal of the Analysis Result it returns has category metadata.
C6_NoPayloadStillReturns ==
    NoPayload(route)
    => /\ pc # "failed"
       /\ pc = "done"
          => \A k \in 1..Len(result.signals) :
                result.signals[k].category = "metadata"

C6_Witness ==
    /\ pc = "done"
    /\ route.mediaType = "image"
    /\ route.imageData = Undefined
    /\ route.rawBuffer = PngGimp
    /\ Len(result.signals) = 2
    /\ result.signals[1].id = "meta-exif-stripped"
    /\ result.signals[2].category = "metadata"

LevelOrder ==
    <<"level1_lightweight", "level2_deep_spatial", "level3_temporal_crossmodal">>

\* The passes of the run so far are Level 1, Level 2, Level 3 in this order,
\* each at most once and none skipped
PassesInOrder ==
    /\ Len(passes) <= 3
    /\ \A k \in 1..Len(passes) : passes[k].level = LevelOrder[k]

EscalationEvaluations == {k \in 1..Len(passes) : "escalation" \in DOMAIN passes[k]}

\* C12: in every run the level passes execute in the order Level 1, Level 2,
\* Level 3, each at most once and with no skipping (so Level 3 only after
\* Level 2); at most two escalation evaluations are made; the final scoring
\* pass is made exactly once, after the first pass, and ends the run.
C12_LevelOrder ==
    /\ [](/\ PassesInOrder
          /\ Cardinality(EscalationEvaluations) <= 2
          /\ pc \in {"level2", "level3", "final", "done"} => Len(passes) >= 1)
    /\ [][/\ pc # "done"
          /\ pc' = "done" => pc = "final"
          /\ pc' = "done" \/ result' = result
          /\ Len(passes') > Len(passes)
             => /\ Len(passes') = Len(passes) + 1
                /\ \A k \in 1..Len(passes) : passes'[k] = passes[k]]_vars

C12_Witness ==
    /\ pc = "done"
    /\ Len(passes) = 3
    /\ passes[3].level = "level3_temporal_crossmodal"
    /\ Cardinality(EscalationEvaluations) = 2
    /\ result.analysisLevel = "level3_temporal_crossmodal"

Level3Executed ==
    \E k \in 1..Len(passes) : passes[k].level = "level3_temporal_crossmodal"

CusumSignals(sigs) == {k \in 1..Len(sigs) : sigs[k].id = "cusum-changepoints"}

\* The segments the Video Extractor produces for the route
ExtractedSegments(rt) ==
    IF rt.mediaType = "video" /\ HasFrames(rt)
    THEN computeSegmentAuthenticity(rt.frames)
    ELSE << >>

\* C14: the returned result holds the signal cusum-changepoints exactly when
\* its change-point list is non-empty, and then exactly once, as its last
\* signal; when no change point is found no such signal is present and the
\* segments are those the Video Extractor produced.
C14_CusumSignalIffChangePoints ==
    pc = "done"
    => /\ Cardinality(CusumSignals(result.signals))
             = (IF Len(result.changePoints) > 0 THEN 1 ELSE 0)
       /\ Len(result.changePoints) > 0
          => result.signals[Len(result.signals)]
                = CusumSignal(Len(result.changePoints))
       /\ Len(result.changePoints) = 0
          => result.segments = ExtractedSegments(route)

C14_Witness ==
    /\ pc = "done"
    /\ Len(result.changePoints) = 2
    /\ Cardinality(CusumSignals(result.signals)) = 1
    /\ \E k \in 1..Len(result.segments) :
          result.segments[k] # ExtractedSegments(route)[k]

Measured(vector) == {k \in KeySet : vector[k] # NullNumber}

\* C15: the feature vector never shrinks: a slot that holds a measured value
\* holds a measured value after every later step of the run, and in the
\* returned result.
C15_VectorNeverShrinks ==
    /\ [][Measured(featureVector) \subseteq Measured(featureVector')]_vars
    /\ [](pc = "done" => Measured(featureVector) \subseteq Measured(result.featureVector))

C15_Witness ==
    /\ pc = "done"
    /\ Len(passes) = 3
    /\ route.mediaType = "video"
    /\ Measured(result.featureVector) = KeySet

\* The slots filled by the extractors a level configuration enables
EnabledSlots(config) ==
    (IF config.enableFrequency THEN {"hfer", "svd"} ELSE {})
    \cup (IF config.enableTexture THEN {"pdi"} ELSE {})
    \cup (IF config.enableTemporalIdentity THEN {"tiis"} ELSE {})
    \cup (IF config.enableOpticalFlow THEN {"fav"} ELSE {})
    \cup (IF config.enableAudioMetrics THEN {"etk", "pvss", "frd"} ELSE {})

\* C16: the Level 1 pass computes only the metrics its static configuration
\* enables (frequency analysis): after it no other slot is measured, and a
\* run that stops at Level 1 returns the tiis and etk slots unmeasured.
C16_OnlyEnabledExtractors ==
    /\ pc = "level2"
       => Measured(featureVector) \subseteq EnabledSlots(LEVEL_CONFIGS.level1_lightweight)
    /\ (pc = "done" /\ Len(passes) = 1)
       => /\ result.featureVector.tiis = NullNumber
          /\ result.featureVector.etk = NullNumber

\* C20: when the Level 2 or Level 3 pass merges the signals it produced, every
\* signal already in the running list stays unchanged at its position (a
\* newer signal of the same identifier is discarded), and the signals appended
\* after them all carry identifiers the list did not hold.
C20_FirstWriteWins ==
    [][(pc \in {"level2", "level3"} /\ pc' # "failed")
       => /\ Len(signals') >= Len(signals)
          /\ \A k \in 1..Len(signals) : signals'[k] = signals[k]
          /\ \A k \in (Len(signals) + 1)..Len(signals') :
                \A j \in 1..Len(signals) : signals'[k].id # signals[j].id]_vars

C20_Witness ==
    /\ pc = "level3"
    /\ Len(passes) = 2
    /\ route.mediaType = "image"
    /\ route.imageData # Undefined
    /\ Len(signals) >= 4
    /\ signals[1].id = "meta-exif-stripped"
    /\ signals[Len(signals)].id = "tex-pdi-high"
    /\ Len(analyzeImage(route.imageData, route.rawBuffer, TRUE).signals) = Len(signals)

-----------------------------------------------------------------------------
(* analyzeImageMetadata called on its own *)

MaxHeaderLen == 3

\* Byte values that make or break the JPEG and PNG header tests
HeaderBytes == {0, 71, 80, 137, 216, 255}

\* The buffers passed to analyzeImageMetadata
MetadataBuffers ==
    ImageBuffers \cup UNION {[1..m -> HeaderBytes] : m \in 0..MaxHeaderLen}

InitMetadata ==
    /\ pc = "call"
    /\ call \in [op : {"analyzeImageMetadata"}, buffer : MetadataBuffers]
    /\ ret = Null
    /\ segments = << >>
    /\ changePoints = << >>
    /\ PipelineIdle
    /\ CusumIdle

AnalyzeImageMetadata ==
    /\ pc = "call"
    /\ call.op = "analyzeImageMetadata"
    /\ ret' = analyzeImageMetadata(call.buffer)
    /\ pc' = "return"
    /\ UNCHANGED << call, segments, changePoints, pipelineVars, cusumVars >>

NextMetadata == AnalyzeImageMetadata

SpecMetadata == InitMetadata /\ [][NextMetadata]_vars

\* C17: for a buffer that has neither the JPEG nor the PNG header (an empty or
\* too short buffer included) analyzeImageMetadata returns without failing and
\* reports no evidence: no embedded metadata, no editing tool, no
\* recompression, and no Detection Signal.
C17_UnrecognizedNoEvidence ==
    (Returned("analyzeImageMetadata") /\ ~IsJpeg(call.buffer) /\ ~IsPng(call.buffer))
    => /\ ~Threw(ret)
       /\ ~ret.exifPresent
       /\ ~ret.hasBeenEdited
       /\ ~ret.compressionAnomalies
       /\ ret.signals = << >>

-----------------------------------------------------------------------------
(* analyzeAudio called on its own *)

\* Decoded sample buffers passed to analyzeAudio: too short for one pitch
\* frame, long enough for one, and one second at 44.1 kHz; the metrics sit on
\* both sides of every threshold of the signal generation.
AudioSamples ==
    [length : {512, 2048, 44100}, etk : {1000, 9000, 20000},
     pvss : {0, 500, 1000, 4999, 5000, 60000},
     voiced : {3, 4, 9, 10, 11}, frd : {100, 700, 1500}]

InitAudio ==
    /\ pc = "call"
    /\ call \in [op : {"analyzeAudio"}, samples : AudioSamples]
    /\ ret = Null
    /\ segments = << >>
    /\ changePoints = << >>
    /\ PipelineIdle
    /\ CusumIdle

AnalyzeAudio ==
    /\ pc = "call"
    /\ call.op = "analyzeAudio"
    /\ ret' = analyzeAudio(call.samples)
    /\ pc' = "return"
    /\ UNCHANGED << call, segments, changePoints, pipelineVars, cusumVars >>

NextAudio == AnalyzeAudio

SpecAudio == InitAudio /\ [][NextAudio]_vars

\* The signals of sigs that carry the id
WithId(sigs, id) == {k \in 1..Len(sigs) : sigs[k].id = id}

\* C21: analyzeAudio emits audio-pvss-smooth exactly when the pitch smoothness
\* metric is below 5 and at least 10 frames are voiced (exactly 10 included),
\* and the signal's severity is the escalated one exactly when the metric is
\* below 1.
C21_SmoothPitchFromTenVoiced ==
    Returned("analyzeAudio")
    => LET smooth == WithId(ret.signals, "audio-pvss-smooth")
       IN  /\ (smooth # {}) <=> (/\ ret.pitch.pvss < 5000
                                 /\ VoicedFrames(call.samples) >= 10)
           /\ \A k \in smooth :
                  (ret.signals[k].severity = "harmful") <=> (ret.pitch.pvss < 1000)

-----------------------------------------------------------------------------
(* Further claims about runPipeline (Spec) *)

\* The AMAFAnalysisResult has been returned
Done == pc = "done"

\* C22: for an image that arrives without a decoded pixel grid the analysis
\* is metadata-only: hfer, svd and pdi are unmeasured in the returned feature
\* vector and the result carries no frequencyMetrics.
C22_MetadataOnlyWithoutPixels ==
    (Done /\ route.mediaType = "image" /\ route.imageData = Undefined)
    => /\ \A key \in {"hfer", "svd", "pdi"} :
              result.featureVector[key] = NullNumber
       /\ result.frequencyMetrics = Undefined

\* C23: the pitch smoothness 0 that stands for "fewer than 4 voiced frames"
\* is neutral: no audio-pvss-smooth signal comes with it and, once stored in
\* the pvss slot, its anomaly contribution to the ensemble score is 0.
C23_PitchFallbackNeutral ==
    (/\ Done
     /\ route.audioBuffer # Undefined
     /\ VoicedFrames(route.audioBuffer) < 4
     /\ result.featureVector.pvss # NullNumber)
    => /\ WithId(result.signals, "audio-pvss-smooth") = {}
       /\ result.featureVector.pvss = 0
       /\ normalizeFeature("pvss", result.featureVector.pvss)
             * FEATURE_BASELINES.pvss.weight = 0

\* Position of a level on the escalation ladder
LevelRank(level) ==
    CASE level = "level1_lightweight" -> 1
      [] level = "level2_deep_spatial" -> 2
      [] level = "level3_temporal_crossmodal" -> 3

\* C24: no run of runPipeline takes the early exit, whatever the probability
\* at an evaluation: no escalation decision of a pass is an early exit, the
\* earlyExit flag stays false up to and in the returned result, and no level
\* block lowers the current level.
C24_NeverEarlyExit ==
    /\ [](/\ ~earlyExit
          /\ \A k \in EscalationEvaluations : ~passes[k].escalation.earlyExit
          /\ Done => ~result.earlyExit)
    /\ [][/\ pc \in {"level1", "level2", "level3"}
             => LevelRank(currentLevel') >= LevelRank(currentLevel)]_vars

C24_Witness ==
    /\ Done
    /\ \E k \in EscalationEvaluations : passes[k].fakeProbability > 950
    /\ ~result.earlyExit
    /\ result.fakeProbability > 950

\* The level determineStartLevel chooses for the routed file
StartLevel == determineStartLevel(route.mediaType, route.fileSize)

\* C25: the analysisLevel of the returned result is the level of the deepest
\* pass that executed and is not shallower than the start level; the Level 1
\* pass executes in every run; with start level Level 2 the Level 2 pass
\* executes whether or not the Level 1 decision was to escalate.
C25_AnalysisLevelIsDeepestPass ==
    /\ pc \in {"level2", "level3", "final", "done"}
       => /\ Len(passes) >= 1
          /\ passes[1].level = "level1_lightweight"
    /\ (pc \in {"level3", "final", "done"} /\ StartLevel = "level2_deep_spatial")
       => /\ Len(passes) >= 2
          /\ passes[2].level = "level2_deep_spatial"
    /\ Done
       => /\ result.analysisLevel = passes[Len(passes)].level
          /\ \A k \in 1..Len(passes) :
                 LevelRank(passes[k].level) <= LevelRank(result.analysisLevel)
          /\ LevelRank(result.analysisLevel) >= LevelRank(StartLevel)

C25_Witness ==
    /\ Done
    /\ StartLevel = "level2_deep_spatial"
    /\ ~passes[1].escalation.shouldEscalate
    /\ Len(passes) = 2
    /\ passes[2].level = "level2_deep_spatial"
    /\ result.analysisLevel = "level2_deep_spatial"

\* C26: in the returned result a slot is measured only if a level that fills
\* it was reached: fav only at Level 3; pdi, pvss and frd only at Level 2 or
\* 3; and change points are present only at Level 3.
C26_SlotsNeedTheirLevel ==
    Done
    => /\ result.featureVector.fav # NullNumber
          => result.analysisLevel = "level3_temporal_crossmodal"
       /\ (\E key \in {"pdi", "pvss", "frd"} : result.featureVector[key] # NullNumber)
          => result.analysisLevel
                \in {"level2_deep_spatial", "level3_temporal_crossmodal"}
       /\ result.changePoints # << >>
          => result.analysisLevel = "level3_temporal_crossmodal"

C26_Witness ==
    /\ Done
    /\ result.featureVector.fav # NullNumber
    /\ result.featureVector.pdi # NullNumber
    /\ result.featureVector.pvss # NullNumber
    /\ result.changePoints # << >>
    /\ result.analysisLevel = "level3_temporal_crossmodal"

\* C27 as stated: no probability evaluated or returned is below the Platt
\* transform of 0; a run ends at Level 1 or Level 2 only if the probability
\* evaluated at that level was above 0.75; and a run whose raw score is 0 at
\* each evaluation reaches Level 3.
C27_EndsEarlyOnlyAbove75 ==
    /\ \A k \in EscalationEvaluations :
           /\ ~Lt(passes[k].rawScore, 0)
           /\ ~Lt(passes[k].fakeProbability, plattScale(0))
    /\ Done
       => /\ ~Lt(result.fakeProbability, plattScale(0))
          /\ result.analysisLevel # "level3_temporal_crossmodal"
             => Gt(passes[Len(passes)].fakeProbability, 750)
          /\ (\A k \in EscalationEvaluations : passes[k].rawScore = 0)
             => result.analysisLevel = "level3_temporal_crossmodal"

\* The 1-based position in segs of the segment a change point refers to
SegmentPosition(cp) == cp.segmentIndex + 1

\* C28: in the returned result every change point refers to an existing
\* segment, carries that segment's segmentIndex and start time, and, when its
\* direction is increase, that segment is flagged; and every segment with an
\* authenticity score below 0.5 is flagged.
C28_ChangePointsMatchSegments ==
    Done
    => /\ \A k \in 1..Len(result.changePoints) :
              LET cp == result.changePoints[k]
              IN  /\ SegmentPosition(cp) \in 1..Len(result.segments)
                  /\ result.segments[SegmentPosition(cp)].segmentIndex = cp.segmentIndex
                  /\ result.segments[SegmentPosition(cp)].startTime = cp.timestamp
                  /\ cp.direction = "increase"
                     => result.segments[SegmentPosition(cp)].flagged
       /\ \A j \in 1..Len(result.segments) :
              result.segments[j].authenticityScore < 500
              => result.segments[j].flagged

\* An increase change point at a segment the extractor had not flagged
C28_Witness ==
    /\ Done
    /\ \E k \in 1..Len(result.changePoints) :
           LET cp == result.changePoints[k]
           IN  /\ cp.direction = "increase"
               /\ cp.timestamp > 0
               /\ result.segments[SegmentPosition(cp)].authenticityScore >= 500
               /\ result.segments[SegmentPosition(cp)].flagged
    /\ \E j \in 1..Len(result.segments) : result.segments[j].authenticityScore < 500

-----------------------------------------------------------------------------
(* detectChangePoints called with explicit allowance and threshold *)

\* Longest segment sequence passed with explicit parameters
MaxParamSegments == 4

\* Values of the allowance parameter, in thousandths
Allowances == {-300, 0, 100, 300}

\* Values of the threshold parameter, in thousandths
Thresholds == {-100, 0, 500}

ParameterCalls ==
    {[op |-> "detectChangePoints", segments |-> MakeSegments(sc),
      allowance |-> a, threshold |-> t] :
        sc \in UNION {[1..l -> CoarseScores] : l \in 0..MaxParamSegments},
        a \in Allowances, t \in Thresholds}

InitCusumParameters ==
    /\ pc = "call"
    /\ call \in ParameterCalls
    /\ ret = Null
    /\ segments = call.segments
    /\ changePoints = << >>
    /\ PipelineIdle
    /\ CusumIdle

SpecCusumParameters == InitCusumParameters /\ [][NextCusum]_vars

\* The loop of detectChangePoints has processed at least one index (those
\* below i)
InLoopOrAfter ==
    /\ call.op = "detectChangePoints"
    /\ pc \in {"loop", "return", "enriched"}
    /\ Len(call.segments) >= 3
    /\ i >= 1

\* Both running statistics (carried multiplied by the number of segments)
\* lie in [0, threshold]
StatisticsWithinThreshold ==
    /\ cusumUpper >= 0 /\ cusumUpper <= Len(call.segments) * call.threshold
    /\ cusumLower >= 0 /\ cusumLower <= Len(call.segments) * call.threshold

\* One change point per index at most, in strictly increasing index, each
\* with a value above the threshold
ChangePointsWellFormed ==
    /\ \A j, k \in 1..Len(changePoints) :
           j < k => changePoints[j].segmentIndex < changePoints[k].segmentIndex
    /\ \A k \in 1..Len(changePoints) :
           changePoints[k].cusumValue > Len(call.segments) * call.threshold

\* C29 as stated: for every non-negative allowance, after each processed
\* index both running statistics lie in [0, threshold], each index has at
\* most one change point, indexes strictly increase and every emitted value
\* exceeds the threshold.
C29_NoSuppressedCrossing ==
    (InLoopOrAfter /\ call.allowance >= 0)
    => StatisticsWithinThreshold /\ ChangePointsWellFormed

\* C29 amended: the same for every non-negative allowance and non-negative
\* threshold.
C29_NoSuppressedCrossingNonNegative ==
    (InLoopOrAfter /\ call.allowance >= 0 /\ call.threshold >= 0)
    => StatisticsWithinThreshold /\ ChangePointsWellFormed

C29_Witness ==
    /\ pc = "return"
    /\ Len(call.segments) >= 3
    /\ call.allowance > 0
    /\ call.threshold > 0
    /\ \E j, k \in 1..Len(changePoints) :
           /\ changePoints[j].direction = "increase"
           /\ changePoints[k].direction = "decrease"

-----------------------------------------------------------------------------
(* Further claims about the Scoring Engine (SpecScoring) *)

\* The tier the ladder 80 / 55 / 30 gives an integer percentage
TierOfScore(score) ==
    IF score >= 80 THEN "high_risk"
    ELSE IF score >= 55 THEN "harmful"
    ELSE IF score >= 30 THEN "suspicious"
    ELSE "low"

\* C30 as stated: for every probability in [0, 1] the tier returned by
\* classifyRisk is the tier the ladder gives the returned riskScore.
C30_TierAgreesWithScore ==
    (Returned("classifyRisk") /\ ~IsNaN(call.probability))
    => ret.riskLevel = TierOfScore(ret.riskScore)

\* The probability rounds up to a boundary percentage it is still below
RoundsUpToBoundary(p) ==
    \E boundary \in {300, 550, 800} : p >= boundary - 5 /\ p < boundary

\* C30 amended: the tier is read off the probability and the score is the
\* rounded percentage, so the two agree on the ladder except when the
\* probability lies less than half a percent below a boundary; there the score
\* is the boundary (30, 55 or 80) and the tier is the one below it.
C30_TierAgreesUnlessRoundedUp ==
    (Returned("classifyRisk") /\ ~IsNaN(call.probability))
    => /\ (ret.riskLevel = TierOfScore(ret.riskScore))
             <=> ~RoundsUpToBoundary(call.probability)
       /\ RoundsUpToBoundary(call.probability)
          => /\ ret.riskScore \in {30, 55, 80}
             /\ RiskRank(ret.riskLevel) + 1 = RiskRank(TierOfScore(ret.riskScore))

C30_Witness ==
    /\ Returned("classifyRisk")
    /\ call.probability = 297
    /\ ret.riskScore = 30
    /\ ret.riskLevel = "low"

=============================================================================
